---- MODULE Spec2Model ----
(***************************************************************************)
(* Validation engine of the proxy tester: the port lease manager, the      *)
(* runtime-instance controller, one validation attempt                     *)
(* (test_single_proxy), the connectivity decision, deduplication and the   *)
(* batch scheduler, as written in scripts/test.py and scripts/run.py.      *)
(* The variable `script` says which of the two scripts is running; the two *)
(* scripts define the same classes with different bodies.                  *)
(***************************************************************************)
EXTENDS Integers, FiniteSets, Sequences, TLC

(* ------------------------------ bounds -------------------------------- *)
\* number of ports of the lease range that the model keeps
NumPorts == 2
\* validation attempts started in one run; the pool has a worker for each
MaxAttempts == 2
\* the clock stops advancing here (seconds)
MaxTime == 6
\* acquire_port calls followed while the clock runs
MaxLeases == 3
\* longest list given to remove_duplicate_proxies
MaxRecords == 3
\* longest list given to test_all_proxies
MaxTasks == 3
\* largest BATCH_SIZE
MaxBatch == 2

(* ------------------------- program constants -------------------------- *)
start_port == 17890
end_port == start_port + NumPorts
SocksOffset == 1
ControlOffset == 1000
\* is_port_available: "Wait 2 seconds after release"
ReleaseWait == 2
\* release_port: entries older than this are dropped
PruneAge == 5
\* start: "Require 3 consecutive successful checks"
RequiredChecks == 3
\* acquire_port returns None, which test_single_proxy reads as falsy
NoPort == 0

Ports == start_port .. (end_port - 1)
Threads == 1 .. MaxAttempts
Scripts == {"test", "run"}

VARIABLES
    script,               \* which script runs: "test" (test.py) or "run" (run.py)
    now,                  \* time.time(), in seconds
    orphans,              \* proxy ports of children still running after their attempt returned
    used_ports,           \* PortManager.used_ports
    port_release_delay,   \* PortManager.port_release_delay (test.py)
    pc,                   \* position of each worker inside test_single_proxy
    proxy_port,           \* local proxy_port of the attempt
    config_exists,        \* the attempt's generated config file is on disk
    instance,             \* the attempt's ClashInstance: process, is_ready, start() calls
    alive,                \* the child process of the attempt is running
    consecutive_success,  \* local of ClashInstance.start
    result,               \* what the attempt returns
    hist,                 \* observations of the attempt, kept for the properties
    attempts,             \* attempts started so far
    released_at,          \* when release_port was last called for a port
    conn,                 \* locals of test_proxy_connectivity (test.py)
    connObs,              \* observations of that call, kept for the properties
    val,                  \* locals of advanced_proxy_validation (run.py)
    valObs,               \* observations of that call, kept for the properties
    dedup,                \* locals of remove_duplicate_proxies
    sched,                \* test_all_proxies: groups, batches and the worker pool
    main,                 \* one run of main(): the outcomes and their aggregation
    interrupted,          \* KeyboardInterrupt was delivered to the main thread
    parse,                \* one call of parse_proxy_url
    output                \* OutputManager (run.py): the queue, the printer thread, shutdown

\* the variables of the port manager, the instances and the attempts
leaseVars == <<script, now, orphans, used_ports, port_release_delay, pc,
               proxy_port, config_exists, instance, alive,
               consecutive_success, result, hist, attempts, released_at>>
connVars == <<conn, connObs>>
valVars == <<val, valObs>>
dedupVars == <<dedup>>
batchVars == <<sched>>
runVars == <<main, interrupted>>
codecVars == <<parse>>
outVars == <<output>>
\* the variables an attempt does not touch
pipelineVars == <<connVars, valVars, dedupVars, batchVars, runVars,
                  codecVars, outVars>>

vars == <<script, now, orphans, used_ports, port_release_delay, pc,
          proxy_port, config_exists, instance, alive, consecutive_success,
          result, hist, attempts, released_at, conn, connObs, val, valObs,
          dedup, sched, main, interrupted, parse, output>>

(* ----------------------------- PortManager ---------------------------- *)

Min(S) == CHOOSE x \in S : \A y \in S : x <= y

\* ports some live child was configured with (create_clash_config)
InstancePorts(p) == {p, p + SocksOffset, p + ControlOffset}

\* the bind probe succeeds on a port nobody holds
BindSucceeds(port, bound) == port \notin bound

\* test.py PortManager.is_port_available
is_port_available_test(port, delay, t, bound) ==
    IF port \in DOMAIN delay /\ t - delay[port] < ReleaseWait
    THEN FALSE
    ELSE BindSucceeds(port, bound)

\* run.py PortManager.is_port_available
is_port_available_run(port, bound) == BindSucceeds(port, bound)

is_port_available(s, port, delay, t, bound) ==
    IF s = "test" THEN is_port_available_test(port, delay, t, bound)
    ELSE is_port_available_run(port, bound)

\* a scan that does not look at used_ports
Acquirable_ignoring_leases(s, used, delay, t, bound) ==
    {p \in Ports : is_port_available(s, p, delay, t, bound)}

\* the ports the scan of acquire_port would accept
Acquirable(s, used, delay, t, bound) ==
    {p \in Ports : p \notin used /\ is_port_available(s, p, delay, t, bound)}

\* PortManager.acquire_port: the first acceptable port of the range, or None
acquire_port(s, used, delay, t, bound) ==
    IF Acquirable(s, used, delay, t, bound) = {} THEN NoPort
    ELSE Min(Acquirable(s, used, delay, t, bound))

\* a release_port that drops every entry but the newest
release_delay_newest(delay, port, t) == [p \in {port} |-> t]

\* test.py release_port: stamp the port, then drop the old entries
release_delay_test(delay, port, t) ==
    LET stamped == [p \in DOMAIN delay \cup {port} |->
                        IF p = port THEN t ELSE delay[p]]
    IN  [p \in {q \in DOMAIN stamped : t - stamped[q] < PruneAge} |-> stamped[p]]

\* run.py release_port keeps no stamps
release_delay_run(delay, port, t) == delay

release_delay(s, delay, port, t) ==
    IF s = "test" THEN release_delay_test(delay, port, t)
    ELSE release_delay_run(delay, port, t)

(* --------------------------- ClashInstance ---------------------------- *)

\* the fields ClashInstance.__init__ sets: no process, not ready, never started
NewInstance == [process |-> FALSE, is_ready |-> FALSE, starts |-> 0]

\* a clash_context that keeps the object of the previous attempt
ClashInstance_reused(old) == old

\* ClashInstance.__init__: a new object per clash_context call. `starts`
\* counts the start() calls made on the object.
ClashInstance(old) == NewInstance

\* create_clash_config: True when the file was dumped; the file exists as
\* soon as open(config_file, 'w') succeeded, also when the dump then fails
ConfigOutcomes == {"ok", "fail_early", "fail_written"}
create_clash_config(o) ==
    [ret |-> o = "ok", written |-> o \in {"ok", "fail_written"}]

\* a health check that does not poll the child
check_health_test_no_poll(running, answered200, accepts) ==
    answered200 /\ accepts

\* test.py _check_health: child running, /version answers 200, proxy port
\* accepts a connection
check_health_test(running, answered200, accepts) ==
    running /\ answered200 /\ accepts

\* run.py _check_health followed by _verify_proxy_ready
check_health_run(running, answered200, accepts) == answered200 /\ accepts

check_health(s, running, answered200, accepts) ==
    IF s = "test" THEN check_health_test(running, answered200, accepts)
    ELSE check_health_run(running, answered200, accepts)

\* test.py start, one loop iteration: count the good probe or reset, ready
\* once the count reaches the required number
start_probe_test(count, healthy) ==
    LET c == IF healthy THEN count + 1 ELSE 0
    IN  [count |-> c, ready |-> healthy /\ c >= RequiredChecks]

\* run.py start, one loop iteration: no counter, ready on a good probe
start_probe_run(count, healthy) == [count |-> count, ready |-> healthy]

start_probe(s, count, healthy) ==
    IF s = "test" THEN start_probe_test(count, healthy)
    ELSE start_probe_run(count, healthy)

\* start after Popen: test.py sleeps and polls the child once, run.py goes
\* straight to the health loop
LaunchOutcomes == {"popen_raises", "exited", "running"}
start_after_launch(s, o) ==
    IF o = "popen_raises" THEN "failed"
    ELSE IF s = "test" /\ o = "exited" THEN "failed"
    ELSE "health"

\* stop: terminate() and wait(3); on any exception the handler kills
StopOutcomes == {"exited", "raised"}
stop_after_terminate(o) == IF o = "exited" THEN "stopped" ELSE "kill"

\* a handler that lets the failure of kill() or wait(1) leave stop
stop_after_kill_propagates(o) ==
    [pc |-> IF o = "raised" THEN "finally" ELSE "stopped", raised |-> o = "raised"]

\* stop: kill() and wait(1) inside "try ... except: pass"
stop_after_kill(o) == [pc |-> "stopped", raised |-> FALSE]

\* clash_context: os.remove inside "try ... except: pass"
RemoveOutcomes == {"removed", "error"}
remove_config(exists, o) ==
    [exists |-> exists /\ o = "error", raised |-> FALSE]

\* a health loop written as "while True"
health_loop_unbounded(s) == FALSE

\* start: "while time.time() - start_time < timeout": every iteration takes
\* time (a probe and a sleep of 0.3 s), so the test fails after finitely many
health_loop_expires(s) == TRUE

(* -------------------------- test_single_proxy -------------------------- *)

NoPortsMsg == "No available ports"
ConfigFailedMsg == "Config creation failed"
StartFailedMsg == "Clash instance failed to start"
ExceptionMsg == "Exception"
ConnectivityMsg == "Connectivity failed"

Pending == [success |-> FALSE, error |-> "pending"]
\* run.py returns (False, 0, {}) on every failure: no message
Failure(s, msg) ==
    [success |-> FALSE, error |-> IF s = "test" THEN msg ELSE ""]
Success == [success |-> TRUE, error |-> ""]

\* tested: the connectivity test ran; goodRun: probes in a row that found the
\* child running, the control endpoint answering 200 and the proxy port open;
\* stopRaised: an exception left stop; body: the result the "with" body
\* decided
NoHist == [tested |-> FALSE, goodRun |-> 0, stopRaised |-> FALSE,
           body |-> Pending]

\* ports held at OS level by our running children
BoundPorts ==
    UNION {InstancePorts(p) : p \in orphans}
        \cup UNION {InstancePorts(proxy_port[t]) : t \in {u \in Threads : alive[u]}}

\* a config step whose failure returns without the "finally"
config_next_no_finally(o) == IF o = "ok" THEN "created" ELSE "idle"

\* where test_single_proxy goes after the config step: into clash_context, or
\* through "finally" when it returns or raises
config_next(o) == IF o = "ok" THEN "created" ELSE "finally"

\* the "with" body of test_single_proxy runs the connectivity test only on a
\* yielded instance that is ready
body_runs_test(yielded, ready) == yielded /\ ready

(* ----------------- test_proxy_connectivity (test.py) ------------------ *)

\* default of the parameter max_retries; test_single_proxy passes none
max_retries == 2
\* "if attempt_passed_stages >= 2 and len(attempt_latencies) >= 3"
RequiredStages == 2
RequiredSamples == 3

\* test_stages: per test the accepted status codes, the size limits (0 where
\* the code has None: both are skipped by "if test.get(...)"), whether a
\* content_check is present, and the weight
test_stages == <<
    [name |-> "Basic HTTP", required_pass |-> 1, tests |-> <<
        [expected_code |-> {204}, min_size |-> 0, max_size |-> 10,
         content_check |-> FALSE, weight |-> 3],
        [expected_code |-> {204}, min_size |-> 0, max_size |-> 10,
         content_check |-> FALSE, weight |-> 3] >>],
    [name |-> "HTTPS Validation", required_pass |-> 1, tests |-> <<
        [expected_code |-> {204}, min_size |-> 0, max_size |-> 10,
         content_check |-> FALSE, weight |-> 4],
        [expected_code |-> {200, 301, 302}, min_size |-> 0, max_size |-> 0,
         content_check |-> FALSE, weight |-> 3] >>],
    [name |-> "Content Fetch", required_pass |-> 1, tests |-> <<
        [expected_code |-> {200}, min_size |-> 1000, max_size |-> 0,
         content_check |-> TRUE, weight |-> 5],
        [expected_code |-> {200}, min_size |-> 500, max_size |-> 0,
         content_check |-> TRUE, weight |-> 4] >>] >>

\* the tests of the table, as <<stage, test>>
TestIds == {<<s, k>> : s \in 1 .. Len(test_stages), k \in 1 .. 2}
Weight(id) == test_stages[id[1]].tests[id[2]].weight

RECURSIVE SumWeights(_)
SumWeights(S) ==
    IF S = {} THEN 0
    ELSE LET id == CHOOSE x \in S : TRUE
         IN  Weight(id) + SumWeights(S \ {id})

\* what requests.get can give for one test: an exception of one of these
\* classes, or a response with a status code, a body length and whether the
\* body holds the text the content_check looks for
Raised == {"ProxyError", "Timeout", "SSLError", "ConnectionError", "ValueError"}
Statuses == {200, 204, 403}
Sizes == {0, 8, 64, 600, 2000}
HttpOutcomes ==
    {[raised |-> e, status |-> 0, len |-> 0, marker |-> FALSE] : e \in Raised}
    \cup {r \in [raised : {"none"}, status : Statuses, len : Sizes,
                 marker : BOOLEAN] : r.len = 0 => ~r.marker}

\* a failure reason: the message and the number formatted into it
Reason(msg, arg) == [msg |-> msg, arg |-> arg]
\* last_error = None, and the "" returned with a success
ErrNone == Reason("", 0)

\* the except clauses of the test loop, in their order
exception_reason(e) ==
    CASE e = "ProxyError" -> Reason("Proxy connection failed", 0)
      [] e = "Timeout" -> Reason("Request timeout", 0)
      [] e = "SSLError" -> Reason("SSL error", 0)
      [] e = "ConnectionError" -> Reason("Connection error", 0)
      [] OTHER -> Reason("Unexpected error", 0)

\* one test of the loop body: whether it passed and the value it leaves in
\* last_error
run_test(test, o) ==
    IF o.raised # "none"
    THEN [passed |-> FALSE, last_error |-> exception_reason(o.raised)]
    ELSE IF o.status \notin test.expected_code
    THEN [passed |-> FALSE, last_error |-> Reason("Bad status", o.status)]
    ELSE IF test.min_size # 0 /\ o.len < test.min_size
    THEN [passed |-> FALSE, last_error |-> Reason("Content too small", o.len)]
    ELSE IF test.max_size # 0 /\ o.len > test.max_size
    THEN [passed |-> FALSE, last_error |-> Reason("Content too large", o.len)]
    ELSE IF test.content_check /\ ~o.marker
    THEN [passed |-> FALSE, last_error |-> Reason("Content validation failed", 0)]
    ELSE [passed |-> TRUE, last_error |-> ErrNone]

\* "if stage_passed_tests > 0 and len(stage_latencies) >= stage['required_pass']"
stage_passes(stage_passed_tests, stage_latencies, required_pass) ==
    stage_passed_tests > 0 /\ Len(stage_latencies) >= required_pass

\* an attempt decided by the number of stages alone
attempt_ok_by_stages(attempt_passed_stages, attempt_latencies) ==
    attempt_passed_stages >= RequiredStages

\* "if attempt_passed_stages >= 2 and len(attempt_latencies) >= 3"
attempt_ok(attempt_passed_stages, attempt_latencies) ==
    attempt_passed_stages >= RequiredStages
        /\ Len(attempt_latencies) >= RequiredSamples

\* an attempt that goes on with the samples of the attempt before it
attempt_latencies_kept(previous) == previous

\* "attempt_latencies = []" at the start of an attempt
attempt_latencies_new(previous) == << >>

\* "latency = (time.time() - start) * 1000": the milliseconds measured for
\* a test, one value for every test of every attempt
sample(attempt, stage, test) == 100 * (attempt + 1) + 10 * stage + test

RECURSIVE sum(_)
sum(samples) ==
    IF samples = << >> THEN 0 ELSE Head(samples) + sum(Tail(samples))

\* "sum(all_latencies) / len(all_latencies)", and 0 for no samples: the
\* quotient as numerator and denominator
avg_latency(samples) ==
    IF samples = << >> THEN <<0, 1>> ELSE <<sum(samples), Len(samples)>>

\* a retry loop that keeps the results of the failed attempt
clear_for_retry_never(attempt, list) == list

\* "if attempt < max_retries - 1: all_latencies.clear(); stage_results.clear()"
clear_for_retry(attempt, list) ==
    IF attempt < max_retries - 1 THEN << >> ELSE list

\* "return False, avg_latency, last_error or 'Failed multiple stages'"
exhausted_reason(last_error) ==
    IF last_error = ErrNone THEN Reason("Failed multiple stages", 0)
    ELSE last_error

\* the locals of test_proxy_connectivity before the call; latency lists hold
\* the tests that produced the samples
ConnIdle ==
    [pc |-> "idle", attempt |-> 0, stage |-> 1, test |-> 1,
     stage_passed_tests |-> 0, stage_latencies |-> << >>,
     attempt_passed_stages |-> 0, attempt_latencies |-> << >>,
     all_latencies |-> << >>, stage_results |-> << >>,
     last_error |-> ErrNone,
     ret |-> [success |-> FALSE, latency |-> <<0, 1>>, reason |-> ErrNone]]

\* a response with status 204 that carries a body
is_204_with_body(o) == o.raised = "none" /\ o.status = 204 /\ o.len > 0

\* observations of the call: the tests passed, the tests answered by a 204
\* with a body and the reason of the latest failing test in the current
\* attempt, attempts started, waits made, and whether an attempt started
\* with results of an earlier one
ConnObsIdle ==
    [passed |-> {}, body204 |-> {}, lastFail |-> ErrNone, started |-> 0,
     waits |-> 0, carried |-> FALSE]

(* ---------------- advanced_proxy_validation (run.py) ------------------ *)

\* "overall_pass_rate >= 0.75", in percent
OverallPassPercent == 75
\* "critical_pass_rate >= 0.95", in percent
CriticalPassPercent == 95
\* "for attempt in range(2)"
TestTries == 2

\* validation_tests: name, expected status, the validate_content lambda (by
\* what it looks at), weight, critical
validation_tests == <<
    [name |-> "connectivity_basic", expected_status |-> 204,
     validate_content |-> "any", weight |-> 15, critical |-> TRUE],
    [name |-> "connectivity_alternate", expected_status |-> 204,
     validate_content |-> "any", weight |-> 15, critical |-> TRUE],
    [name |-> "https_basic", expected_status |-> 200,
     validate_content |-> "longer_than_100", weight |-> 20, critical |-> TRUE],
    [name |-> "ip_verification", expected_status |-> 200,
     validate_content |-> "ip_change", weight |-> 30, critical |-> TRUE],
    [name |-> "cloudflare_trace", expected_status |-> 200,
     validate_content |-> "cf_trace", weight |-> 20, critical |-> TRUE],
    [name |-> "dns_resolution", expected_status |-> 200,
     validate_content |-> "has_answer", weight |-> 10, critical |-> FALSE],
    [name |-> "real_content", expected_status |-> 200,
     validate_content |-> "real_page", weight |-> 15, critical |-> FALSE] >>

RECURSIVE SumTestWeights(_, _)
\* sum(t['weight'] for t in validation_tests [if t['critical']])
SumTestWeights(i, critical_only) ==
    IF i > Len(validation_tests) THEN 0
    ELSE (IF critical_only /\ ~validation_tests[i].critical THEN 0
          ELSE validation_tests[i].weight)
         + SumTestWeights(i + 1, critical_only)
total_weight == SumTestWeights(1, FALSE)
critical_weight == SumTestWeights(1, TRUE)

\* addresses: none (None, or a body without one), the machine's own address
\* and the address of the proxy's exit
NoIP == "none"
MachineIP == "198.51.100.7"
ExitIP == "203.0.113.9"
\* what requests.request can give: an exception, or a response with a
\* status, a body length, the address the body reports, and whether the body
\* holds the text the lambda looks for
ValSizes == {0, 64, 600, 6000}
ValOutcomes ==
    {[raised |-> TRUE, status |-> 0, len |-> 0, ip |-> NoIP, marker |-> FALSE]}
    \cup {r \in [raised : {FALSE}, status : Statuses, len : ValSizes,
                 ip : {NoIP, MachineIP, ExitIP}, marker : BOOLEAN] :
              r.len = 0 => (~r.marker /\ r.ip = NoIP)}

\* a validate_ip_change that accepts any address
validate_ip_change_any(proxy_ip, direct_ip) == proxy_ip # NoIP

\* validate_ip_change: False without an address, False when the address is
\* the known direct one
validate_ip_change(proxy_ip, direct_ip) ==
    IF proxy_ip = NoIP THEN FALSE
    ELSE IF direct_ip # NoIP /\ proxy_ip = direct_ip THEN FALSE
    ELSE TRUE

\* "'ip=' in r.text and validate_cf_trace(r, direct_ip)"
validate_cf_trace(proxy_ip, direct_ip) ==
    IF proxy_ip = NoIP THEN FALSE
    ELSE IF direct_ip # NoIP /\ proxy_ip = direct_ip THEN FALSE
    ELSE TRUE

validate_content(kind, o, direct_ip) ==
    CASE kind = "any" -> TRUE
      [] kind = "longer_than_100" -> o.len > 100
      [] kind = "ip_change" -> validate_ip_change(o.ip, direct_ip)
      [] kind = "cf_trace" -> validate_cf_trace(o.ip, direct_ip)
      [] kind = "has_answer" -> o.marker
      [] kind = "real_page" -> o.len > 5000 /\ o.marker

\* one request of a test: passed when the status is the expected one and the
\* content validates
request_passes(test, o, direct_ip) ==
    /\ ~o.raised
    /\ o.status = test.expected_status
    /\ validate_content(test.validate_content, o, direct_ip)

\* an is_valid without the critical pass rate
is_valid_overall_only(achieved_weight, achieved_critical_weight, results) ==
    /\ 100 * achieved_weight >= OverallPassPercent * total_weight
    /\ {"connectivity_basic", "https_basic", "ip_verification"}
           \subseteq results

\* is_valid, with the two rates compared in percent
is_valid(achieved_weight, achieved_critical_weight, results) ==
    /\ critical_weight > 0
    /\ 100 * achieved_critical_weight >= CriticalPassPercent * critical_weight
    /\ total_weight > 0
    /\ 100 * achieved_weight >= OverallPassPercent * total_weight
    /\ "connectivity_basic" \in results
    /\ "https_basic" \in results
    /\ "ip_verification" \in results

\* the locals of advanced_proxy_validation before the call; results holds the
\* names mapped to True, latencies the tests that produced the samples
ValIdle ==
    [pc |-> "idle", direct_ip |-> NoIP, test |-> 1, attempt |-> 0,
     results |-> {}, latencies |-> << >>, achieved_weight |-> 0,
     achieved_critical_weight |-> 0, ret |-> FALSE]

\* the address last reported to ip_verification and to cloudflare_trace
ValObsIdle == [ipify |-> "unseen", trace |-> "unseen"]

(* ------------------- remove_duplicate_proxies ------------------------- *)

\* the records the input lists are made of: two protocols, two servers, one
\* port, two display names
ProxyTypes == {"vmess", "ss"}
Servers == {"node7443.example.com", "node55399.example.com"}
ProxyPorts == {"443"}
Names == {"a", "b"}
ProxyRecords ==
    [type : ProxyTypes, server : Servers, port : ProxyPorts, name : Names]
DedupInputs == UNION {[1 .. n -> ProxyRecords] : n \in 0 .. MaxRecords}

\* calculate_proxy_hash: f"{type}:{server}:{port}"
key_fields(proxy) == proxy.type \o ":" \o proxy.server \o ":" \o proxy.port

\* hashlib.md5(key).hexdigest()[:8], for the keys of ProxyRecords
md5_8(key) ==
    CASE key = "vmess:node7443.example.com:443" -> "a003f1bf"
      [] key = "vmess:node55399.example.com:443" -> "a003f1bf"
      [] key = "ss:node7443.example.com:443" -> "7fbe0a4e"
      [] key = "ss:node55399.example.com:443" -> "7ee39ca4"

calculate_proxy_hash(proxy) == md5_8(key_fields(proxy))

\* a loop that takes no record for a duplicate
is_duplicate_never(proxy_hash, seen_hashes) == FALSE

\* "if proxy_hash not in seen_hashes: ... else: duplicate_count += 1"
is_duplicate(proxy_hash, seen_hashes) == proxy_hash \in seen_hashes

\* the locals of remove_duplicate_proxies before the call
DedupIdle ==
    [pc |-> "idle", proxies |-> << >>, i |-> 1, seen_hashes |-> {},
     unique_proxies |-> << >>, duplicate_count |-> 0]

(* ---------- test_all_proxies, test_group_proxies, test_batch_proxies --- *)

\* the input lists of test_all_proxies, by the type of each record
SchedInputs == UNION {[1 .. n -> ProxyTypes] : n \in 1 .. MaxTasks}

\* the records of one type
CountOf(proxies, ptype) ==
    Cardinality({i \in 1 .. Len(proxies) : proxies[i] = ptype})

\* "for group_name, group_proxies in sorted(groups.items())": the types that
\* occur, in sorted order ("ss" < "vmess"), with the size of each group
groups_of(proxies) ==
    LET ss == CountOf(proxies, "ss")
        vmess == CountOf(proxies, "vmess")
    IN  (IF ss > 0 THEN <<[name |-> "ss", total |-> ss]>> ELSE << >>)
        \o (IF vmess > 0 THEN <<[name |-> "vmess", total |-> vmess]>> ELSE << >>)

\* "num_batches = (total + batch_size - 1) // batch_size"
num_batches(total, batch_size) == (total + batch_size - 1) \div batch_size

\* len(proxies[start_idx:end_idx]) of batch batch_num
batch_len(total, batch_size, batch_num) ==
    LET start_idx == batch_num * batch_size
        end_idx == Min({start_idx + batch_size, total})
    IN  end_idx - start_idx

\* a pool that starts a thread for every task
worker_exists_always(t, max_workers) == TRUE

\* ThreadPoolExecutor(max_workers=max_workers): the threads of the pool
worker_exists(t, max_workers) == t <= max_workers

\* an executor that is left once every task was handed to a thread
pool_drained_on_submit(queue, completed, size) == queue = 0

\* leaving "with ThreadPoolExecutor(...)" after as_completed: every future
\* of the batch is done
pool_drained(queue, completed, size) == queue = 0 /\ completed = size

\* time.sleep(d) of the scheduling thread
after_sleep(t, d) == Min({t + d, MaxTime})

\* the locals of the three functions before the call; task[t] is the group
\* and batch of the record that pool thread t is testing
SchedIdle ==
    [pc |-> "idle", groups |-> << >>, max_workers |-> 0, batch_size |-> 0,
     group |-> 1, batch_num |-> 0, queue |-> 0, size |-> 0, completed |-> 0,
     task |-> [t \in Threads |-> <<0, 0>>]]

(* ------------- main, test_all_proxies and the final report ------------ *)

\* the records of a run as the aggregation reads them: proxy['type'] and
\* proxy['name']
RunRecords == [type : ProxyTypes, name : Names]
RunInputs == UNION {[1 .. n -> RunRecords] : n \in 0 .. MaxTasks}

\* average latencies (ms) that test_proxy_connectivity returns
Latencies == {40, 90}

\* what a future of test_batch_proxies delivers: the tuple test_single_proxy
\* returned (no port, no config, no ready instance, a caught exception, a
\* failed or a passed connectivity test), or an exception that left the task
TaskOutcomes ==
    {[raised |-> FALSE, result |-> FALSE, latency |-> 0, error |-> m] :
        m \in {NoPortsMsg, ConfigFailedMsg, StartFailedMsg, ExceptionMsg}}
    \cup {[raised |-> FALSE, result |-> FALSE, latency |-> 40,
           error |-> ConnectivityMsg]}
    \cup {[raised |-> FALSE, result |-> TRUE, latency |-> l, error |-> ""] :
            l \in Latencies}
    \cup {[raised |-> TRUE, result |-> FALSE, latency |-> 0,
           error |-> ExceptionMsg]}

\* how far test_single_proxy went before it delivered the outcome
effects_of(o) ==
    IF ~o.raised /\ o.error = NoPortsMsg THEN {}
    ELSE IF o.raised \/ o.error \in {ConfigFailedMsg, ExceptionMsg}
         THEN {"port"}
         ELSE {"port", "config", "process"}

\* the positions in proxies of the records of one type, in list order
members_of(proxies, ptype) ==
    SelectSeq([i \in 1 .. Len(proxies) |-> i],
              LAMBDA i : proxies[i].type = ptype)

\* "groups[ptype].append(proxy)" and "sorted(groups.items())"
run_groups(proxies) ==
    LET ss == members_of(proxies, "ss")
        vmess == members_of(proxies, "vmess")
    IN  (IF ss # << >> THEN <<[name |-> "ss", members |-> ss]>> ELSE << >>)
        \o (IF vmess # << >>
            THEN <<[name |-> "vmess", members |-> vmess]>> ELSE << >>)

\* dict.update(other)
dict_update(d, other) ==
    [k \in DOMAIN d \cup DOMAIN other |->
        IF k \in DOMAIN other THEN other[k] ELSE d[k]]

\* d[k] = v
dict_store(d, k, v) == dict_update(d, [x \in {k} |-> v])

\* d[k] = d.get(k, 0) + n
dict_add(d, k, n) ==
    dict_store(d, k, (IF k \in DOMAIN d THEN d[k] ELSE 0) + n)

RECURSIVE SumOver(_, _)
\* sum(d[k] for k in S)
SumOver(d, S) ==
    IF S = {} THEN 0
    ELSE LET k == CHOOSE x \in S : TRUE IN d[k] + SumOver(d, S \ {k})

\* sum(d.values())
dict_sum(d) == SumOver(d, DOMAIN d)

Max(S) == CHOOSE x \in S : \A y \in S : y <= x

\* the locals of test_batch_proxies
BatchLocals ==
    [working_proxies |-> << >>, completed |-> 0, latencies |-> << >>,
     error_stats |-> << >>]

\* an as_completed loop whose "except" branch only records the error
future_done_uncounted(b, i, proxy, o) ==
    IF o.raised
    THEN [b EXCEPT !.error_stats = dict_add(@, ExceptionMsg, 1)]
    ELSE IF o.result
    THEN [b EXCEPT !.completed = @ + 1,
                   !.working_proxies = Append(@, i),
                   !.latencies = dict_store(@, proxy.name, o.latency)]
    ELSE [b EXCEPT !.completed = @ + 1,
                   !.error_stats = dict_add(@, o.error, 1)]

\* test_batch_proxies, the body of "for future in as_completed(futures)" for
\* the future of record i
future_done(b, i, proxy, o) ==
    IF o.raised
    THEN [b EXCEPT !.completed = @ + 1,
                   !.error_stats = dict_add(@, ExceptionMsg, 1)]
    ELSE IF o.result
    THEN [b EXCEPT !.completed = @ + 1,
                   !.working_proxies = Append(@, i),
                   !.latencies = dict_store(@, proxy.name, o.latency)]
    ELSE [b EXCEPT !.completed = @ + 1,
                   !.error_stats = dict_add(@, o.error, 1)]

\* the locals of test_group_proxies
GroupLocals ==
    [working_proxies |-> << >>, all_latencies |-> << >>, total_tested |-> 0]

\* save_working_configs: "latency_values = [v for v in latencies.values()
\* if v > 0]" and the average (sum over len), min and max of the metadata
latency_metadata(latencies) ==
    LET keys == {k \in DOMAIN latencies : latencies[k] > 0}
        latency_values == {latencies[k] : k \in keys}
    IN  [sum |-> SumOver(latencies, keys), len |-> Cardinality(keys),
         min |-> IF keys # {} THEN Min(latency_values) ELSE 0,
         max |-> IF keys # {} THEN Max(latency_values) ELSE 0]

NoMetadata == [sum |-> 0, len |-> 0, min |-> 0, max |-> 0]

\* a main that goes on without the binary
binary_missing_ignored(clash_path) == FALSE

\* main: "if not clash_path: ... sys.exit(1)"; validate_environment: "if not
\* clash_path: ... return False"
binary_missing(clash_path) == clash_path = "none"

ClashPaths == {"none", "/usr/local/bin/clash"}

NotExited == 0 - 1

\* the locals of main, test_all_proxies and test_group_proxies before the
\* run; tested, succeeded, latency_sum, seen, effects and phases record what
\* happened, for the properties
MainIdle ==
    [pc |-> "idle", entry |-> "none", proxies |-> << >>,
     clash_path |-> "none", batch_size |-> 0, groups |-> << >>,
     group |-> 1, batch_num |-> 0, pending |-> {}, batch |-> BatchLocals,
     grp |-> GroupLocals, all_working |-> << >>, group_stats |-> << >>,
     all_latencies |-> << >>, saved |-> FALSE, metadata |-> NoMetadata,
     exit_code |-> NotExited,
     tested |-> << >>, succeeded |-> {}, latency_sum |-> 0, seen |-> {},
     effects |-> {}, phases |-> {}, failed_groups |-> {}]

(* --------------------------- parse_proxy_url --------------------------- *)

\* Text that the code inspects character by character (ids, servers, ports)
\* is a sequence of one-character strings; text that it only compares or
\* tests for emptiness (ciphers, passwords) is a string; a display name is a
\* sequence of pieces, << >> when empty.

Digits == <<"0", "1", "2", "3", "4", "5", "6", "7", "8", "9">>
LowerAlpha == <<"a", "b", "c", "d", "e", "f", "g", "h", "i", "j", "k", "l",
                "m", "n", "o", "p", "q", "r", "s", "t", "u", "v", "w", "x",
                "y", "z">>
UpperAlpha == <<"A", "B", "C", "D", "E", "F", "G", "H", "I", "J", "K", "L",
                "M", "N", "O", "P", "Q", "R", "S", "T", "U", "V", "W", "X",
                "Y", "Z">>
Range(f) == {f[i] : i \in DOMAIN f}
Whitespace == {" ", "\t", "\n"}

\* str.lower(), character by character
lower_char(c) ==
    IF c \in Range(UpperAlpha)
    THEN LowerAlpha[CHOOSE i \in DOMAIN UpperAlpha : UpperAlpha[i] = c]
    ELSE c
lower(text) == [i \in DOMAIN text |-> lower_char(text[i])]

\* str.upper(), used to write the inputs
upper_char(c) ==
    IF c \in Range(LowerAlpha)
    THEN UpperAlpha[CHOOSE i \in DOMAIN LowerAlpha : LowerAlpha[i] = c]
    ELSE c

RECURSIVE lstrip(_)
lstrip(text) ==
    IF text # << >> /\ Head(text) \in Whitespace THEN lstrip(Tail(text))
    ELSE text
RECURSIVE rstrip(_)
rstrip(text) ==
    IF text # << >> /\ text[Len(text)] \in Whitespace
    THEN rstrip(SubSeq(text, 1, Len(text) - 1))
    ELSE text
\* str.strip()
strip(text) == rstrip(lstrip(text))

RECURSIVE split(_, _)
\* str.split(sep) for a one-character separator
split(text, sep) ==
    IF \A i \in DOMAIN text : text[i] # sep THEN <<text>>
    ELSE LET k == Min({i \in DOMAIN text : text[i] = sep})
         IN  <<SubSeq(text, 1, k - 1)>>
                 \o split(SubSeq(text, k + 1, Len(text)), sep)

RECURSIVE digits_value(_, _)
\* the number written by a run of decimal digits
digits_value(text, acc) ==
    IF text = << >> THEN acc
    ELSE digits_value(Tail(text),
             10 * acc + (CHOOSE d \in 0 .. 9 : Digits[d + 1] = Head(text)))

\* int(text) for unsigned text: the value, or ValueError
is_int(text) ==
    strip(text) # << >> /\ \A i \in DOMAIN strip(text) :
                              strip(text)[i] \in Range(Digits)
int(text) == digits_value(strip(text), 0)

HexLower == Range(SubSeq(LowerAlpha, 1, 6)) \cup Range(Digits)
AlphaNum == Range(LowerAlpha) \cup Range(UpperAlpha) \cup Range(Digits)

\* a pattern that lets every id through
uuid_pattern_any(text) == TRUE

\* re.match(r'^[a-f0-9]{8}-[a-f0-9]{4}-[a-f0-9]{4}-[a-f0-9]{4}-[a-f0-9]{12}$',
\* text): 36 characters, or 36 and a final newline, which "$" lets through
uuid_pattern(text) ==
    /\ \/ Len(text) = 36
       \/ Len(text) = 37 /\ text[37] = "\n"
    /\ \A i \in 1 .. 36 :
           IF i \in {9, 14, 19, 24} THEN text[i] = "-"
           ELSE text[i] \in HexLower

\* r'^(\d{1,3}\.){3}\d{1,3}$'
ip_pattern(domain) ==
    LET parts == split(domain, ".")
    IN  /\ Len(parts) = 4
        /\ \A k \in 1 .. 4 :
               /\ Len(parts[k]) \in 1 .. 3
               /\ Range(parts[k]) \subseteq Range(Digits)

\* one label of the domain pattern:
\* [a-zA-Z0-9]([a-zA-Z0-9\-]{0,61}[a-zA-Z0-9])?
label_pattern(label) ==
    /\ Len(label) \in 1 .. 63
    /\ label[1] \in AlphaNum
    /\ label[Len(label)] \in AlphaNum
    /\ Range(label) \subseteq AlphaNum \cup {"-"}

\* is_valid_domain: a dotted quad with every part at most 255, or labels
\* separated by dots, 253 characters at most
is_valid_domain(domain) ==
    IF ip_pattern(domain)
    THEN \A k \in 1 .. 4 : int(split(domain, ".")[k]) <= 255
    ELSE /\ \A k \in DOMAIN split(domain, ".") :
                label_pattern(split(domain, ".")[k])
         /\ Len(domain) <= 253

\* parse_ss: valid_ciphers
valid_ciphers ==
    {"aes-128-gcm", "aes-192-gcm", "aes-256-gcm",
     "aes-128-cfb", "aes-192-cfb", "aes-256-cfb",
     "aes-128-ctr", "aes-192-ctr", "aes-256-ctr",
     "chacha20-ietf-poly1305", "xchacha20-ietf-poly1305", "rc4-md5"}

\* validate_proxy_config: valid_types
valid_types == {"vmess", "vless", "ss", "ssr", "trojan"}

\* "return None"
NoRecord == [type |-> "none"]

\* the transport and TLS keys of a record: "network", the options dict of
\* the network ("ws-opts", "grpc-opts" or "h2-opts") with its path or its
\* service name, "tls", "reality-opts" with its public key, and "servername"
\* (Trojan: "sni"); "" stands for a key that the dict does not have
NoTransport ==
    [network |-> "", opts |-> "", path |-> "", service |-> "", tls |-> FALSE,
     reality |-> FALSE, pbk |-> "", servername |-> ""]

\* a parsed record: keys are the keys of the dict that the checks look at
Record(type, keys, name, server, port, uuid, cipher, password) ==
    [type |-> type, keys |-> keys, name |-> name, server |-> server,
     port |-> port, uuid |-> uuid, cipher |-> cipher, password |-> password,
     protocol |-> "", obfs |-> "", transport |-> NoTransport]

BaseKeys == {"type", "name", "server", "port"}

\* validate_proxy_config: required fields present and truthy, known type,
\* server syntax, port range, and the credentials of the type
validate_proxy_config(proxy) ==
    /\ BaseKeys \subseteq proxy.keys
    /\ proxy.type # "" /\ proxy.name # << >> /\ proxy.server # << >>
    /\ proxy.port # 0
    /\ proxy.type \in valid_types
    /\ strip(proxy.server) # << >> /\ Len(strip(proxy.server)) <= 253
    /\ is_valid_domain(strip(proxy.server))
    /\ proxy.port \in 1 .. 65535
    /\ proxy.type \in {"vmess", "vless"} =>
           /\ "uuid" \in proxy.keys /\ proxy.uuid # << >>
           /\ uuid_pattern(lower(proxy.uuid))
    /\ proxy.type \in {"ss", "ssr"} =>
           /\ "cipher" \in proxy.keys /\ proxy.cipher # ""
           /\ "password" \in proxy.keys /\ proxy.password # ""
    /\ proxy.type = "trojan" =>
           "password" \in proxy.keys /\ proxy.password # ""

\* the name after "#": the text of the fragment, or the plain default of
\* the scheme when the URI has no "#"
Absent == "<absent>"
fragment_name(fragment, plain) == IF fragment = Absent THEN plain ELSE fragment

\* "name or f'VLESS-{server}'" and its like
name_or(name, prefix, server) ==
    IF name = "" THEN <<prefix>> \o server ELSE <<name>>

\* config.get(key, default) on the JSON object of a VMess payload
json_get(value, default) == IF value = Absent THEN default ELSE value

\* params.get(key, [default])[0] on the result of parse_qs, which leaves
\* out the keys with a blank value
qs_get(value, default) == IF value \in {Absent, ""} THEN default ELSE value

\* parse_vmess: "tls", "sni", "net" and the options of the network
vmess_transport(q) ==
    LET net == json_get(q.net, "tcp")
    IN  [network |-> net,
         opts |-> IF net \in {"ws", "grpc", "h2"} THEN net ELSE "",
         path |-> IF net \in {"ws", "h2"} THEN json_get(q.path, "/") ELSE "",
         service |-> IF net = "grpc" THEN json_get(q.path, "") ELSE "",
         tls |-> q.security = "tls",
         reality |-> FALSE,
         pbk |-> "",
         servername |-> IF q.security = "tls" THEN json_get(q.sni, "")
                        ELSE ""]

\* parse_vless: "type", "security" with the reality options, "sni" and the
\* options of the network
vless_transport(q) ==
    LET net == qs_get(q.net, "tcp")
        security == qs_get(q.security, "")
    IN  [network |-> net,
         opts |-> IF net \in {"ws", "grpc"} THEN net ELSE "",
         path |-> IF net = "ws" THEN qs_get(q.path, "/") ELSE "",
         service |-> IF net = "grpc" THEN qs_get(q.service, "") ELSE "",
         tls |-> security \in {"tls", "reality"},
         reality |-> security = "reality",
         pbk |-> IF security = "reality" THEN qs_get(q.pbk, "") ELSE "",
         servername |-> IF security \in {"tls", "reality"}
                        THEN qs_get(q.sni, "") ELSE ""]

\* parse_trojan: "sni" and the network type with its options
trojan_transport(q) ==
    LET net == qs_get(q.net, "")
    IN  [network |-> IF net \in {"ws", "grpc"} THEN net ELSE "",
         opts |-> IF net \in {"ws", "grpc"} THEN net ELSE "",
         path |-> IF net = "ws" THEN qs_get(q.path, "/") ELSE "",
         service |-> IF net = "grpc" THEN qs_get(q.service, "") ELSE "",
         tls |-> FALSE,
         reality |-> FALSE,
         pbk |-> "",
         servername |-> qs_get(q.sni, "")]

\* parse_vmess on the decoded payload: config is the JSON object, given by
\* its keys and the values of add, port, id and ps
parse_vmess(url) ==
    IF url.shape # "json" THEN NoRecord
    ELSE LET server == IF "add" \in url.keys THEN strip(url.server)
                       ELSE << >>
             has_port == "port" \in url.keys
             uuid == IF "id" \in url.keys THEN strip(url.id) ELSE << >>
         IN  IF server = << >> \/ (has_port /\ url.port = << >>)
                    \/ uuid = << >>
             THEN NoRecord
             ELSE IF ~uuid_pattern(lower(uuid)) THEN NoRecord
             ELSE IF has_port /\ ~is_int(url.port) THEN NoRecord
             ELSE [Record("vmess", BaseKeys \cup {"uuid", "cipher"},
                          name_or(IF "ps" \in url.keys THEN url.fragment
                                  ELSE "", "VMess-", server),
                          server,
                          IF has_port THEN int(url.port) ELSE 443,
                          uuid, "auto", "")
                      EXCEPT !.transport = vmess_transport(url.query)]

\* parse_vless: "#" name, "?" params, uuid "@" server ":" port
parse_vless(url) ==
    IF url.shape # "full" THEN NoRecord
    ELSE LET uuid == strip(url.id)
             server == strip(url.server)
         IN  IF ~uuid_pattern(lower(uuid)) THEN NoRecord
             ELSE IF ~is_int(url.port) THEN NoRecord
             ELSE [Record("vless", BaseKeys \cup {"uuid"},
                          name_or(fragment_name(url.fragment, "VLESS"),
                                  "VLESS-", server),
                          server, int(url.port), uuid, "", "")
                      EXCEPT !.transport = vless_transport(url.query)]

\* parse_ss: the credentials before "@" decoded to method ":" password, or
\* the whole blob decoded; the method must be a known cipher
parse_ss(url) ==
    IF url.shape \notin {"split", "blob"} THEN NoRecord
    ELSE LET server == strip(url.server)
         IN  IF server = << >> \/ url.method = "" \/ url.password = ""
             THEN NoRecord
             ELSE IF url.method \notin valid_ciphers THEN NoRecord
             ELSE IF ~is_int(url.port) THEN NoRecord
             ELSE Record("ss", BaseKeys \cup {"cipher", "password"},
                         name_or(fragment_name(url.fragment, "Shadowsocks"),
                                 "SS-", server),
                         server, int(url.port), << >>, url.method,
                         url.password)

\* parse_trojan: password "@" server ":" port
parse_trojan(url) ==
    IF url.shape # "full" THEN NoRecord
    ELSE LET server == strip(url.server)
         IN  IF url.password = "" \/ server = << >> THEN NoRecord
             ELSE IF ~is_int(url.port) THEN NoRecord
             ELSE [Record("trojan", BaseKeys \cup {"password"},
                          name_or(fragment_name(url.fragment, "Trojan"),
                                  "Trojan-", server),
                          server, int(url.port), << >>, "", url.password)
                      EXCEPT !.transport = trojan_transport(url.query)]

\* parse_ssr: the decoded blob split at ":" into server, port, protocol,
\* method, obfs and the password; remarks is the name
parse_ssr(url) ==
    IF url.shape # "full" THEN NoRecord
    ELSE LET server == strip(url.server)
         IN  IF server = << >> \/ url.protocol = "" \/ url.method = ""
                    \/ url.obfs = "" \/ url.password = ""
             THEN NoRecord
             ELSE IF ~is_int(url.port) THEN NoRecord
             ELSE [Record("ssr", BaseKeys \cup {"cipher", "password"},
                          name_or(fragment_name(url.fragment, ""), "SSR-",
                                  server),
                          server, int(url.port), << >>, url.method,
                          url.password)
                      EXCEPT !.protocol = url.protocol, !.obfs = url.obfs]

\* calculate_proxy_hash of a parsed record: the digest of its key fields
record_hash(proxy) == <<"md5_8", proxy.type, proxy.server, proxy.port>>

\* a parse_proxy_url that returns what the parser built
is_valid_unchecked(proxy) == TRUE

\* parse_proxy_url: "is_valid, msg = validate_proxy_config(proxy)"
is_valid_record(proxy) == validate_proxy_config(proxy)

\* parse_proxy_url: the length test, the parser of the prefix, the
\* validation, and the hash added to a valid record
parse_proxy_url(url) ==
    IF url.scheme = "short" THEN NoRecord
    ELSE LET proxy ==
                 CASE url.scheme = "vmess" -> parse_vmess(url)
                   [] url.scheme = "vless" -> parse_vless(url)
                   [] url.scheme = "ss" -> parse_ss(url)
                   [] url.scheme = "trojan" -> parse_trojan(url)
                   [] url.scheme = "ssr" -> parse_ssr(url)
                   [] OTHER -> NoRecord
         IN  IF proxy # NoRecord /\ is_valid_record(proxy)
             THEN [type |-> proxy.type, keys |-> proxy.keys \cup {"hash"},
                   name |-> proxy.name, server |-> proxy.server,
                   port |-> proxy.port, uuid |-> proxy.uuid,
                   cipher |-> proxy.cipher, password |-> proxy.password,
                   protocol |-> proxy.protocol, obfs |-> proxy.obfs,
                   transport |-> proxy.transport,
                   hash |-> record_hash(proxy)]
             ELSE NoRecord

RECURSIVE str_int(_)
\* str(port): the decimal digits of a natural number
str_int(n) ==
    IF n < 10 THEN <<Digits[n + 1]>>
    ELSE str_int(n \div 10) \o <<Digits[(n % 10) + 1]>>

RECURSIVE join(_)
\* the display name as one text
join(pieces) ==
    IF pieces = << >> THEN "" ELSE Head(pieces) \o join(Tail(pieces))

\* the query of a URI that has none
NoQuery ==
    [net |-> Absent, security |-> Absent, path |-> Absent, service |-> Absent,
     pbk |-> Absent, sni |-> Absent]

\* a share URI by its parts
Uri(scheme, shape, keys, id, proxy, method, password, query) ==
    [scheme |-> scheme, shape |-> shape, keys |-> keys, id |-> id,
     server |-> proxy.server, port |-> str_int(proxy.port),
     fragment |-> join(proxy.name), method |-> method, password |-> password,
     protocol |-> proxy.protocol, obfs |-> proxy.obfs, query |-> query]

\* reconstruct_vmess_url: the JSON object with net, tls, sni, and path
\* taken from ws-opts or else from grpc-opts
reconstruct_vmess_url(proxy) ==
    LET t == proxy.transport
    IN  Uri("vmess", "json", {"add", "port", "id", "ps"}, proxy.uuid, proxy,
            "", "",
            [net |-> IF t.network = "" THEN "tcp" ELSE t.network,
             security |-> IF t.tls THEN "tls" ELSE "",
             path |-> IF t.opts = "ws" THEN t.path
                      ELSE IF t.opts = "grpc" THEN t.service ELSE "",
             service |-> Absent, pbk |-> Absent, sni |-> t.servername])

\* reconstruct_vless_url: type, security "tls" or "none", sni, and the
\* options of ws or else of grpc
reconstruct_vless_url(proxy) ==
    LET t == proxy.transport
    IN  Uri("vless", "full", {}, proxy.uuid, proxy, "", "",
            [net |-> IF t.network = "" THEN "tcp" ELSE t.network,
             security |-> IF t.tls THEN "tls" ELSE "none",
             path |-> IF t.opts = "ws" THEN t.path ELSE Absent,
             service |-> IF t.opts = "grpc" THEN t.service ELSE Absent,
             pbk |-> Absent,
             sni |-> IF t.servername # "" THEN t.servername ELSE Absent])

\* reconstruct_ss_url: base64 of cipher ":" password, "@" server ":" port
reconstruct_ss_url(proxy) ==
    Uri("ss", "split", {}, << >>, proxy, proxy.cipher, proxy.password,
        NoQuery)

\* reconstruct_trojan_url: sni, and type with path only for ws
reconstruct_trojan_url(proxy) ==
    LET t == proxy.transport
    IN  Uri("trojan", "full", {}, << >>, proxy, "", proxy.password,
            [net |-> IF t.network = "ws" THEN "ws" ELSE Absent,
             security |-> Absent,
             path |-> IF t.network = "ws" /\ t.opts = "ws" THEN t.path
                      ELSE Absent,
             service |-> Absent, pbk |-> Absent,
             sni |-> IF t.servername # "" THEN t.servername ELSE Absent])

\* reconstruct_ssr_url: base64 of the six components and the remarks
reconstruct_ssr_url(proxy) ==
    Uri("ssr", "full", {}, << >>, proxy, proxy.cipher, proxy.password,
        NoQuery)

\* proxy_to_share_url: the serializer of the record's type
proxy_to_share_url(proxy) ==
    CASE proxy.type = "vmess" -> reconstruct_vmess_url(proxy)
      [] proxy.type = "vless" -> reconstruct_vless_url(proxy)
      [] proxy.type = "ss" -> reconstruct_ss_url(proxy)
      [] proxy.type = "trojan" -> reconstruct_trojan_url(proxy)
      [] proxy.type = "ssr" -> reconstruct_ssr_url(proxy)
      [] OTHER -> Uri("http", "full", {}, << >>, proxy, "", "", NoQuery)

\* ids: a canonical UUID in lower and in upper case and between blanks, the
\* same without dashes, with a letter that is no hex digit, one character
\* short, one long, and nothing
UuidLower ==
    <<"b", "8", "3", "1", "3", "8", "1", "d", "-", "6", "3", "2", "4", "-",
      "4", "d", "5", "3", "-", "a", "d", "4", "f", "-",
      "8", "c", "d", "a", "4", "8", "b", "3", "0", "8", "1", "1">>
UuidUpper == [i \in 1 .. 36 |-> upper_char(UuidLower[i])]
UuidPadded == <<" ">> \o UuidLower \o <<" ">>
UuidNoDash == SelectSeq(UuidLower, LAMBDA c : c # "-")
UuidBadChar == [UuidLower EXCEPT ![1] = "g"]
UuidShort == SubSeq(UuidLower, 1, 35)
UuidLong == UuidLower \o <<"0">>
Ids == {UuidLower, UuidUpper, UuidPadded, UuidNoDash, UuidBadChar,
        UuidShort, UuidLong, << >>}

\* servers: a domain, an address, an address out of range, a name with an
\* underscore, and nothing
ServerTexts ==
    {<<"a", "-", "1", ".", "i", "o">>, <<"1", ".", "2", ".", "3", ".", "4">>,
     <<"9", "9", "9", ".", "1", ".", "1", ".", "1">>, <<"a", "_", "b">>,
     << >>}

\* ports: 443, 0, 70000, "8x", and nothing
PortTexts ==
    {<<"4", "4", "3">>, <<"0">>, <<"7", "0", "0", "0", "0">>, <<"8", "x">>,
     << >>}

Fragments == {Absent, "", "n"}
Methods == {"aes-256-gcm", "chacha20-ietf-poly1305", "rc4", "none", ""}
Passwords == {"", "pw"}

\* the URIs given to parse_proxy_url, by scheme and by the parts that the
\* parser of the scheme cuts them into; "short" is a text of fewer than 10
\* characters, "http" one with no known prefix; the other shapes are the
\* malformed texts that a parser gives up on before it reads the parts
Blank(u) ==
    /\ u.id = << >> /\ u.server = << >> /\ u.port = << >>
    /\ u.fragment = Absent /\ u.keys = {}
UriFields(schemes, shapes, keysets, ids, servers, ports) ==
    [scheme : schemes, shape : shapes, keys : keysets, id : ids,
     server : servers, port : ports, fragment : Fragments,
     method : {""}, password : {""}, protocol : {""}, obfs : {""},
     query : {NoQuery}]
VmessInputs ==
    {u \in UriFields({"vmess"}, {"json", "not_json"},
                     {{"add", "port", "id", "ps"}, {"add", "id"},
                      {"add", "port"}, {"port", "id"}, {}},
                     Ids, ServerTexts, PortTexts) :
        /\ u.shape = "not_json" => Blank(u)
        /\ u.shape = "json" => u.keys # {} /\ u.fragment # Absent}
VlessInputs ==
    {u \in UriFields({"vless"}, {"full", "no_at", "no_colon"}, {{}},
                     Ids, ServerTexts, PortTexts) :
        u.shape # "full" => Blank(u)}
SecretFields(schemes, shapes, methods, protocols) ==
    [scheme : schemes, shape : shapes, keys : {{}}, id : {<< >>},
     server : ServerTexts, port : PortTexts,
     fragment : Fragments, method : methods, password : Passwords,
     protocol : protocols, obfs : protocols, query : {NoQuery}]
BlankSecret(u) ==
    /\ Blank(u) /\ u.method = "" /\ u.password = "" /\ u.protocol = ""
TrojanInputs ==
    {u \in SecretFields({"trojan"}, {"full", "no_at"}, {""}, {""}) :
        u.shape # "full" => BlankSecret(u)}
SsInputs ==
    {u \in SecretFields({"ss"}, {"split", "blob", "no_colon"}, Methods,
                        {""}) :
        u.shape = "no_colon" => BlankSecret(u)}
SsrInputs ==
    {u \in SecretFields({"ssr"}, {"full", "few_parts"}, Methods,
                        {"", "origin"}) :
        /\ u.shape # "full" => BlankSecret(u)
        /\ u.shape = "full" => u.protocol = u.obfs}
OtherInputs ==
    {u \in UriFields({"short", "http"}, {"full"}, {{}}, {<< >>}, {<< >>},
                     {<< >>}) : Blank(u)}

\* well-formed VMess, VLESS and Trojan URIs over the transports and the TLS
\* modes, with and without a path and a server name; grpc carries a service
\* name and reality a public key
Queries ==
    {q \in [net : {"tcp", "ws", "grpc", "h2"},
            security : {"none", "tls", "reality"},
            path : {Absent, "/x"}, service : {Absent, "svc"},
            pbk : {Absent, "pk"}, sni : {Absent, "s.io"}] :
        /\ q.service = "svc" <=> q.net = "grpc"
        /\ q.pbk = "pk" <=> q.security = "reality"}
GoodServer == <<"a", "-", "1", ".", "i", "o">>
GoodPort == <<"4", "4", "3">>
TransportInputs ==
    {[scheme |-> sch,
      shape |-> IF sch = "vmess" THEN "json" ELSE "full",
      keys |-> IF sch = "vmess" THEN {"add", "port", "id", "ps"} ELSE {},
      id |-> IF sch = "trojan" THEN << >> ELSE UuidLower,
      server |-> GoodServer, port |-> GoodPort, fragment |-> "n",
      method |-> "", password |-> IF sch = "trojan" THEN "pw" ELSE "",
      protocol |-> "", obfs |-> "",
      query |-> IF sch = "vmess" /\ q.net = "grpc"
                THEN [q EXCEPT !.path = "svc", !.service = Absent]
                ELSE q] : sch \in {"vmess", "vless", "trojan"}, q \in Queries}

ParseInputs ==
    VmessInputs \cup VlessInputs \cup TrojanInputs \cup SsInputs
        \cup SsrInputs \cup OtherInputs \cup TransportInputs

\* the locals of parse_proxy_url before the call, and of a caller that
\* serializes the record and parses the text again
ParseIdle ==
    [pc |-> "idle", url |-> NoRecord, proxy |-> NoRecord, share |-> NoRecord,
     again |-> NoRecord]

(* ------------------- initial state and the attempts ------------------- *)

(* ---------------------------- OutputManager --------------------------- *)

\* messages one run passes to print
MaxMessages == 4
\* texts passed to print
Messages == {"=", "Batch"}
NoMessage == ""

\* OutputManager.__init__: an empty queue, running, the printer thread started.
\* passed and printed are kept for the properties; backlog is the number of
\* unfinished messages when shutdown began, empty_raised whether the last get
\* raised queue.Empty.
OutputInit ==
    [message_queue |-> << >>, unfinished_tasks |-> 0, running |-> TRUE,
     thread |-> "while", msg |-> NoMessage, shutdown |-> "idle",
     passed |-> << >>, printed |-> << >>, backlog |-> 0,
     empty_raised |-> FALSE]

\* the loop test with running false and without the test of the queue
queue_left_ignored(message_queue) == FALSE

\* while self.running or not self.message_queue.empty(), once running is false
queue_left(message_queue) == message_queue # << >>

\* OutputManager.print, called by the main thread; every path of main calls
\* shutdown last and after its banner
OutputPrint ==
    /\ output.shutdown = "idle"
    /\ Len(output.passed) < MaxMessages
    /\ \E message \in Messages :
           output' = [output EXCEPT !.message_queue = Append(@, message),
                         !.unfinished_tasks = @ + 1,
                         !.passed = Append(@, message)]
    /\ UNCHANGED <<leaseVars, connVars, valVars, dedupVars, batchVars,
                   runVars, codecVars>>

\* _printer_worker reads self.running
PrinterWhile ==
    /\ output.thread = "while"
    /\ output' = [output EXCEPT
                      !.thread = IF output.running THEN "get" ELSE "empty"]
    /\ UNCHANGED <<leaseVars, connVars, valVars, dedupVars, batchVars,
                   runVars, codecVars>>

\* _printer_worker reads message_queue.empty() and leaves the loop or not
PrinterEmpty ==
    /\ output.thread = "empty"
    /\ output' = [output EXCEPT
                      !.thread = IF queue_left(output.message_queue)
                                 THEN "get" ELSE "exited"]
    /\ UNCHANGED <<leaseVars, connVars, valVars, dedupVars, batchVars,
                   runVars, codecVars>>

\* message_queue.get(timeout=0.1) returns the oldest message
PrinterGet ==
    /\ output.thread = "get"
    /\ output.message_queue # << >>
    /\ output' = [output EXCEPT !.thread = "print", !.empty_raised = FALSE,
                      !.msg = Head(output.message_queue),
                      !.message_queue = Tail(@)]
    /\ UNCHANGED <<leaseVars, connVars, valVars, dedupVars, batchVars,
                   runVars, codecVars>>

\* message_queue.get(timeout=0.1) raises queue.Empty: continue
PrinterTimeout ==
    /\ output.thread = "get"
    /\ output.message_queue = << >>
    /\ output' = [output EXCEPT !.thread = "while", !.empty_raised = TRUE]
    /\ UNCHANGED <<leaseVars, connVars, valVars, dedupVars, batchVars,
                   runVars, codecVars>>

\* print(msg, flush=True)
PrinterPrint ==
    /\ output.thread = "print"
    /\ output' = [output EXCEPT !.thread = "task_done",
                      !.printed = Append(@, output.msg)]
    /\ UNCHANGED <<leaseVars, connVars, valVars, dedupVars, batchVars,
                   runVars, codecVars>>

\* message_queue.task_done()
PrinterTaskDone ==
    /\ output.thread = "task_done"
    /\ output' = [output EXCEPT !.thread = "while", !.msg = NoMessage,
                      !.unfinished_tasks = @ - 1]
    /\ UNCHANGED <<leaseVars, connVars, valVars, dedupVars, batchVars,
                   runVars, codecVars>>

\* shutdown: self.running = False
ShutdownBegin ==
    /\ output.shutdown = "idle"
    /\ output.passed # << >>
    /\ output' = [output EXCEPT !.running = FALSE, !.shutdown = "join",
                      !.backlog = output.unfinished_tasks]
    /\ UNCHANGED <<leaseVars, connVars, valVars, dedupVars, batchVars,
                   runVars, codecVars>>

\* shutdown: message_queue.join() returns when no task is unfinished
ShutdownJoin ==
    /\ output.shutdown = "join"
    /\ output.unfinished_tasks = 0
    /\ output' = [output EXCEPT !.shutdown = "thread_join"]
    /\ UNCHANGED <<leaseVars, connVars, valVars, dedupVars, batchVars,
                   runVars, codecVars>>

\* shutdown: thread.join(timeout=2) returns, the thread over or the two
\* seconds over
ShutdownThreadJoin ==
    /\ output.shutdown = "thread_join"
    /\ output' = [output EXCEPT !.shutdown = "returned"]
    /\ UNCHANGED <<leaseVars, connVars, valVars, dedupVars, batchVars,
                   runVars, codecVars>>

\* the steps of the printer thread
PrinterStep ==
    \/ PrinterWhile
    \/ PrinterEmpty
    \/ PrinterGet
    \/ PrinterTimeout
    \/ PrinterPrint
    \/ PrinterTaskDone

\* the steps shutdown waits in
ShutdownWait ==
    \/ ShutdownJoin
    \/ ShutdownThreadJoin

Init ==
    /\ script \in Scripts
    /\ now = 0
    /\ orphans = {}
    /\ used_ports = {}
    /\ port_release_delay = << >>
    /\ pc = [t \in Threads |-> "idle"]
    /\ proxy_port = [t \in Threads |-> NoPort]
    /\ config_exists = [t \in Threads |-> FALSE]
    /\ instance = [t \in Threads |-> NewInstance]
    /\ alive = [t \in Threads |-> FALSE]
    /\ consecutive_success = [t \in Threads |-> 0]
    /\ result = [t \in Threads |-> Pending]
    /\ hist = [t \in Threads |-> NoHist]
    /\ attempts = 0
    /\ released_at = << >>
    /\ conn = ConnIdle
    /\ connObs = ConnObsIdle
    /\ val = ValIdle
    /\ valObs = ValObsIdle
    /\ dedup = DedupIdle
    /\ sched = SchedIdle
    /\ main = MainIdle
    /\ interrupted = FALSE
    /\ parse = ParseIdle
    /\ output = OutputInit

\* time passes
Tick ==
    /\ now < MaxTime
    /\ now' = now + 1
    /\ UNCHANGED <<script, orphans, used_ports, port_release_delay, pc,
                   proxy_port, config_exists, instance, alive,
                   consecutive_success, result, hist, attempts,
                   released_at, pipelineVars>>

\* test_single_proxy: port_manager.acquire_port()
AcquireStep(t, cap) ==
    /\ pc[t] = "idle"
    /\ attempts < cap
    /\ attempts' = attempts + 1
    /\ LET p == acquire_port(script, used_ports, port_release_delay, now, BoundPorts)
       IN  /\ proxy_port' = [proxy_port EXCEPT ![t] = p]
           /\ used_ports' = IF p = NoPort THEN used_ports ELSE used_ports \cup {p}
           /\ pc' = [pc EXCEPT ![t] = IF p = NoPort THEN "noport" ELSE "config"]
           /\ result' = [result EXCEPT ![t] =
                  IF p = NoPort THEN Failure(script, NoPortsMsg) ELSE Pending]
    /\ UNCHANGED <<script, now, orphans, port_release_delay, config_exists,
                   instance, alive, consecutive_success, hist,
                   released_at>>

AcquireWithin(t, cap) == AcquireStep(t, cap) /\ UNCHANGED pipelineVars

Acquire(t) == AcquireWithin(t, MaxAttempts)

\* test_single_proxy: "if not proxy_port: return False, 0, ..."
ReturnNoPortStep(t) ==
    /\ pc[t] = "noport"
    /\ pc' = [pc EXCEPT ![t] = "idle"]
    /\ result' = [result EXCEPT ![t] = Pending]
    /\ UNCHANGED <<script, now, orphans, used_ports, port_release_delay,
                   proxy_port, config_exists, instance, alive,
                   consecutive_success, hist, attempts,
                   released_at>>

ReturnNoPort(t) == ReturnNoPortStep(t) /\ UNCHANGED pipelineVars

\* test_single_proxy: file name, create_clash_config, entry of clash_context
Config(t) ==
    /\ pc[t] = "config"
    /\ \E o \in ConfigOutcomes \cup {"raise"} :
        LET c == IF o = "raise" THEN [ret |-> FALSE, written |-> FALSE]
                 ELSE create_clash_config(o)
        IN  /\ config_exists' = [config_exists EXCEPT ![t] = c.written]
            /\ pc' = [pc EXCEPT ![t] = config_next(o)]
            /\ result' = [result EXCEPT ![t] =
                   IF o = "ok" THEN Pending
                   ELSE IF o = "raise" THEN Failure(script, ExceptionMsg)
                   ELSE Failure(script, ConfigFailedMsg)]
            /\ instance' = [instance EXCEPT ![t] =
                   IF o = "ok" THEN ClashInstance(instance[t]) ELSE instance[t]]
    /\ UNCHANGED <<script, now, orphans, used_ports, port_release_delay,
                   proxy_port, alive, consecutive_success, hist, attempts,
                   released_at, pipelineVars>>

\* clash_context: instance.start() is called
StartCall(t) ==
    /\ pc[t] = "created"
    /\ instance' = [instance EXCEPT ![t].starts = @ + 1]
    /\ pc' = [pc EXCEPT ![t] = "starting"]
    /\ UNCHANGED <<script, now, orphans, used_ports, port_release_delay,
                   proxy_port, config_exists, alive, consecutive_success,
                   result, hist, attempts,
                   released_at, pipelineVars>>

\* start: subprocess.Popen and the first look at the child
Launch(t) ==
    /\ pc[t] = "starting"
    /\ \E o \in LaunchOutcomes :
        /\ instance' = [instance EXCEPT ![t].process = (o # "popen_raises")]
        /\ alive' = [alive EXCEPT ![t] = (o = "running")]
        /\ pc' = [pc EXCEPT ![t] = start_after_launch(script, o)]
    /\ consecutive_success' = [consecutive_success EXCEPT ![t] = 0]
    /\ UNCHANGED <<script, now, orphans, used_ports, port_release_delay,
                   proxy_port, config_exists, result, hist, attempts,
                   released_at, pipelineVars>>

\* start: the loop test finds the timeout elapsed, start returns False
StartTimeout(t) ==
    /\ pc[t] = "health"
    /\ health_loop_expires(script)
    /\ pc' = [pc EXCEPT ![t] = "failed"]
    /\ UNCHANGED <<script, now, orphans, used_ports, port_release_delay,
                   proxy_port, config_exists, instance, alive,
                   consecutive_success, result, hist, attempts,
                   released_at, pipelineVars>>

\* start: one iteration of the health loop
Probe(t) ==
    /\ pc[t] = "health"
    /\ \E answered200 \in BOOLEAN, accepts \in BOOLEAN :
        LET healthy == check_health(script, alive[t], answered200, accepts)
            r == start_probe(script, consecutive_success[t], healthy)
        IN  /\ consecutive_success' = [consecutive_success EXCEPT ![t] = r.count]
            /\ instance' = [instance EXCEPT ![t].is_ready = r.ready]
            /\ pc' = [pc EXCEPT ![t] = IF r.ready THEN "ready" ELSE "health"]
            /\ hist' = [hist EXCEPT ![t].goodRun =
                   IF alive[t] /\ answered200 /\ accepts THEN @ + 1 ELSE 0]
    /\ UNCHANGED <<script, now, orphans, used_ports, port_release_delay,
                   proxy_port, config_exists, alive, result, attempts,
                   released_at, pipelineVars>>

\* the child process exits on its own
ChildExit(t) ==
    /\ alive[t]
    /\ alive' = [alive EXCEPT ![t] = FALSE]
    /\ UNCHANGED <<script, now, orphans, used_ports, port_release_delay, pc,
                   proxy_port, config_exists, instance, consecutive_success,
                   result, hist, attempts,
                   released_at, pipelineVars>>

\* a child left running by an earlier attempt exits
OrphanExit(p) ==
    /\ p \in orphans
    /\ orphans' = orphans \ {p}
    /\ UNCHANGED <<script, now, used_ports, port_release_delay, pc, proxy_port,
                   config_exists, instance, alive, consecutive_success, result,
                   hist, attempts,
                   released_at, pipelineVars>>

\* body of the "with": no ready instance, return the start failure
BodyStartFailed(t) ==
    /\ pc[t] \in {"failed", "ready"}
    /\ ~body_runs_test(pc[t] = "ready", instance[t].is_ready)
    /\ result' = [result EXCEPT ![t] = Failure(script, StartFailedMsg)]
    /\ hist' = [hist EXCEPT ![t].body = Failure(script, StartFailedMsg),
                            ![t].goodRun = 0]
    /\ consecutive_success' = [consecutive_success EXCEPT ![t] = 0]
    /\ pc' = [pc EXCEPT ![t] = "stop"]
    /\ UNCHANGED <<script, now, orphans, used_ports, port_release_delay,
                   proxy_port, config_exists, instance, alive, attempts,
                   released_at, pipelineVars>>

\* body of the "with": the connectivity test runs and passes, fails or raises
TestOutcomes == {"pass", "fail", "raise"}
BodyTest(t) ==
    /\ pc[t] \in {"failed", "ready"}
    /\ body_runs_test(pc[t] = "ready", instance[t].is_ready)
    /\ \E o \in TestOutcomes :
        LET r == IF o = "pass" THEN Success
                 ELSE IF o = "fail" THEN Failure(script, ConnectivityMsg)
                 ELSE Failure(script, ExceptionMsg)
        IN  /\ result' = [result EXCEPT ![t] = r]
            /\ hist' = [hist EXCEPT ![t].tested = TRUE, ![t].body = r,
                                    ![t].goodRun = 0]
    /\ consecutive_success' = [consecutive_success EXCEPT ![t] = 0]
    /\ pc' = [pc EXCEPT ![t] = "stop"]
    /\ UNCHANGED <<script, now, orphans, used_ports, port_release_delay,
                   proxy_port, config_exists, instance, alive, attempts,
                   released_at, pipelineVars>>

\* stop: "if self.process", terminate() and wait(3)
StopTerminate(t) ==
    /\ pc[t] = "stop"
    /\ IF ~instance[t].process
       THEN /\ pc' = [pc EXCEPT ![t] = "stopped"]
            /\ UNCHANGED <<instance, alive>>
       ELSE \E o \in StopOutcomes :
            /\ pc' = [pc EXCEPT ![t] = stop_after_terminate(o)]
            /\ instance' = [instance EXCEPT ![t].process =
                   (stop_after_terminate(o) # "stopped")]
            /\ alive' = [alive EXCEPT ![t] = @ /\ o # "exited"]
    /\ UNCHANGED <<script, now, orphans, used_ports, port_release_delay,
                   proxy_port, config_exists, consecutive_success, result,
                   hist, attempts,
                   released_at, pipelineVars>>

\* stop: the handler's kill() and wait(1), then "finally: self.process = None"
StopKill(t) ==
    /\ pc[t] = "kill"
    /\ \E o \in StopOutcomes :
        LET r == stop_after_kill(o)
        IN  /\ pc' = [pc EXCEPT ![t] = r.pc]
            /\ alive' = [alive EXCEPT ![t] = @ /\ o # "exited"]
            /\ result' = [result EXCEPT ![t] =
                   IF r.raised THEN Failure(script, ExceptionMsg) ELSE @]
            /\ hist' = [hist EXCEPT ![t].stopRaised = r.raised]
    /\ instance' = [instance EXCEPT ![t].process = FALSE]
    /\ UNCHANGED <<script, now, orphans, used_ports, port_release_delay,
                   proxy_port, config_exists, consecutive_success, attempts,
                   released_at, pipelineVars>>

\* clash_context: delete the config file
RemoveConfig(t) ==
    /\ pc[t] = "stopped"
    /\ \E o \in RemoveOutcomes :
        LET r == remove_config(config_exists[t], o)
        IN  /\ config_exists' = [config_exists EXCEPT ![t] = r.exists]
            /\ result' = [result EXCEPT ![t] =
                   IF r.raised THEN Failure(script, ExceptionMsg) ELSE @]
    /\ pc' = [pc EXCEPT ![t] = "finally"]
    /\ UNCHANGED <<script, now, orphans, used_ports, port_release_delay,
                   proxy_port, instance, alive, consecutive_success, hist,
                   attempts,
                   released_at, pipelineVars>>

\* test_single_proxy: "finally: port_manager.release_port(proxy_port)" and
\* the return: the frame's locals are gone, a child that is still running
\* stays behind
ReleaseStep(t) ==
    /\ pc[t] = "finally"
    /\ used_ports' = used_ports \ {proxy_port[t]}
    /\ port_release_delay' =
           release_delay(script, port_release_delay, proxy_port[t], now)
    /\ orphans' = IF alive[t] THEN orphans \cup {proxy_port[t]} ELSE orphans
    /\ alive' = [alive EXCEPT ![t] = FALSE]
    /\ proxy_port' = [proxy_port EXCEPT ![t] = NoPort]
    /\ config_exists' = [config_exists EXCEPT ![t] = FALSE]
    /\ result' = [result EXCEPT ![t] = Pending]
    /\ hist' = [hist EXCEPT ![t] = NoHist]
    /\ released_at' = [p \in DOMAIN released_at \cup {proxy_port[t]} |->
                           IF p = proxy_port[t] THEN now ELSE released_at[p]]
    /\ pc' = [pc EXCEPT ![t] = "idle"]
    /\ UNCHANGED <<script, now, instance, consecutive_success, attempts>>

Release(t) == ReleaseStep(t) /\ UNCHANGED pipelineVars

\* what the code between acquire_port and the "finally" of test_single_proxy
\* is to the port manager: time spent without touching it
AttemptBody(t) ==
    /\ pc[t] = "config"
    /\ pc' = [pc EXCEPT ![t] = "finally"]
    /\ \E r \in {Success, Failure(script, ConnectivityMsg)} :
           result' = [result EXCEPT ![t] = r]
    /\ UNCHANGED <<script, now, orphans, used_ports, port_release_delay,
                   proxy_port, config_exists, instance, alive,
                   consecutive_success, hist, attempts,
                   released_at, pipelineVars>>

(* ------------- test_proxy_connectivity: the steps of a call ----------- *)

\* entry: the lists and last_error = "Unknown error"
ConnCall ==
    /\ script = "test"
    /\ conn.pc = "idle"
    /\ conn' = [ConnIdle EXCEPT !.pc = "loop",
                                !.last_error = Reason("Unknown error", 0)]
    /\ connObs' = ConnObsIdle
    /\ UNCHANGED <<leaseVars, valVars, dedupVars, batchVars, runVars, codecVars, outVars>>

\* "for attempt in range(max_retries)": the next attempt, after the wait
\* when it is a retry; after the loop, the failure return
ConnLoop ==
    /\ conn.pc = "loop"
    /\ IF conn.attempt < max_retries
       THEN conn' = [conn EXCEPT
                !.pc = IF conn.attempt > 0 THEN "sleep" ELSE "attempt"]
       ELSE conn' = [conn EXCEPT
                !.pc = "returned",
                !.ret = [success |-> FALSE,
                         latency |-> avg_latency(conn.all_latencies),
                         reason |-> exhausted_reason(conn.last_error)]]
    /\ UNCHANGED <<connObs, leaseVars, valVars, dedupVars, batchVars, runVars, codecVars, outVars>>

\* "if attempt > 0: time.sleep(2)"
ConnSleep ==
    /\ conn.pc = "sleep"
    /\ conn' = [conn EXCEPT !.pc = "attempt"]
    /\ connObs' = [connObs EXCEPT !.waits = @ + 1]
    /\ UNCHANGED <<leaseVars, valVars, dedupVars, batchVars, runVars, codecVars, outVars>>

\* the locals of an attempt and of its first stage
ConnAttempt ==
    /\ conn.pc = "attempt"
    /\ conn' = [conn EXCEPT !.pc = "test", !.stage = 1, !.test = 1,
                            !.attempt_latencies = attempt_latencies_new(@),
                            !.attempt_passed_stages = 0,
                            !.stage_passed_tests = 0,
                            !.stage_latencies = << >>]
    /\ connObs' = [connObs EXCEPT
            !.passed = {}, !.body204 = {}, !.lastFail = ErrNone,
            !.started = @ + 1,
            !.carried = @ \/ conn.all_latencies # << >>
                          \/ conn.stage_results # << >>]
    /\ UNCHANGED <<leaseVars, valVars, dedupVars, batchVars, runVars, codecVars, outVars>>

\* one test of the current stage
ConnTest ==
    /\ conn.pc = "test"
    /\ \E o \in HttpOutcomes :
        LET tests == test_stages[conn.stage].tests
            test == tests[conn.test]
            r == run_test(test, o)
            more == conn.test < Len(tests)
        IN  /\ conn' = [conn EXCEPT
                    !.stage_passed_tests = IF r.passed THEN @ + test.weight ELSE @,
                    !.stage_latencies =
                        IF r.passed
                        THEN Append(@, sample(conn.attempt, conn.stage,
                                              conn.test))
                        ELSE @,
                    !.last_error = r.last_error,
                    !.test = IF more THEN @ + 1 ELSE @,
                    !.pc = IF more THEN "test" ELSE "stage_end"]
            /\ connObs' = [connObs EXCEPT
                    !.passed = IF r.passed THEN @ \cup {<<conn.stage, conn.test>>} ELSE @,
                    !.body204 = IF is_204_with_body(o)
                                THEN @ \cup {<<conn.stage, conn.test>>} ELSE @,
                    !.lastFail = IF r.passed THEN @ ELSE r.last_error]
    /\ UNCHANGED <<leaseVars, valVars, dedupVars, batchVars, runVars, codecVars, outVars>>

\* "Check if stage passed", the stage_results entry, and the next stage
ConnStageEnd ==
    /\ conn.pc = "stage_end"
    /\ LET stage == test_stages[conn.stage]
           ok == stage_passes(conn.stage_passed_tests, conn.stage_latencies,
                              stage.required_pass)
           more == conn.stage < Len(test_stages)
       IN  conn' = [conn EXCEPT
               !.attempt_passed_stages = IF ok THEN @ + 1 ELSE @,
               !.attempt_latencies = IF ok THEN @ \o conn.stage_latencies ELSE @,
               !.stage_results = Append(@,
                   [name |-> stage.name,
                    passed |-> conn.stage_passed_tests > 0,
                    tests_passed |-> Len(conn.stage_latencies)]),
               !.stage = IF more THEN @ + 1 ELSE @,
               !.test = IF more THEN 1 ELSE @,
               !.stage_passed_tests = IF more THEN 0 ELSE @,
               !.stage_latencies = IF more THEN << >> ELSE @,
               !.pc = IF more THEN "test" ELSE "attempt_end"]
    /\ UNCHANGED <<connObs, leaseVars, valVars, dedupVars, batchVars, runVars, codecVars, outVars>>

\* "Check if attempt was successful", else the clearing before a retry
ConnAttemptEnd ==
    /\ conn.pc = "attempt_end"
    /\ IF attempt_ok(conn.attempt_passed_stages, conn.attempt_latencies)
       THEN conn' = [conn EXCEPT
                !.all_latencies = @ \o conn.attempt_latencies,
                !.pc = "returned",
                !.ret = [success |-> TRUE,
                         latency |-> avg_latency(conn.all_latencies
                                                     \o conn.attempt_latencies),
                         reason |-> ErrNone]]
       ELSE conn' = [conn EXCEPT
                !.all_latencies = clear_for_retry(conn.attempt, @),
                !.stage_results = clear_for_retry(conn.attempt, @),
                !.attempt = @ + 1,
                !.pc = "loop"]
    /\ UNCHANGED <<connObs, leaseVars, valVars, dedupVars, batchVars, runVars, codecVars, outVars>>

(* ------------ advanced_proxy_validation: the steps of a call ---------- *)

\* entry, with the direct_ip that main got from get_direct_ip: the machine's
\* address, or None when both services failed
ValCall ==
    /\ script = "run"
    /\ val.pc = "idle"
    /\ \E d \in {NoIP, MachineIP} :
           val' = [ValIdle EXCEPT !.pc = "request", !.direct_ip = d]
    /\ valObs' = ValObsIdle
    /\ UNCHANGED <<leaseVars, connVars, dedupVars, batchVars, runVars, codecVars, outVars>>

\* one request of the current test: on a pass the weights and the break; else
\* the next try, and after the last try the next test
ValRequest ==
    /\ val.pc = "request"
    /\ \E o \in ValOutcomes :
        LET test == validation_tests[val.test]
            ok == request_passes(test, o, val.direct_ip)
            leave == ok \/ val.attempt + 1 >= TestTries
            last == val.test = Len(validation_tests)
        IN  /\ val' = [val EXCEPT
                    !.results = IF ok THEN @ \cup {test.name} ELSE @,
                    !.latencies = IF ok THEN Append(@, test.name) ELSE @,
                    !.achieved_weight = IF ok THEN @ + test.weight ELSE @,
                    !.achieved_critical_weight =
                        IF ok /\ test.critical THEN @ + test.weight ELSE @,
                    !.attempt = IF leave THEN 0 ELSE @ + 1,
                    !.test = IF leave /\ ~last THEN @ + 1 ELSE @,
                    !.pc = IF leave /\ last THEN "decide" ELSE "request"]
            /\ valObs' = [valObs EXCEPT
                    !.ipify = IF test.name = "ip_verification" /\ ~o.raised
                              THEN o.ip ELSE @,
                    !.trace = IF test.name = "cloudflare_trace" /\ ~o.raised
                              THEN o.ip ELSE @]
    /\ UNCHANGED <<leaseVars, connVars, dedupVars, batchVars, runVars, codecVars, outVars>>

\* the two rates, is_valid and the return
ValDecide ==
    /\ val.pc = "decide"
    /\ val' = [val EXCEPT
            !.pc = "returned",
            !.ret = is_valid(val.achieved_weight, val.achieved_critical_weight,
                             val.results)]
    /\ UNCHANGED <<valObs, leaseVars, connVars, dedupVars, batchVars, runVars, codecVars, outVars>>

(* ------------- remove_duplicate_proxies: the steps of a call ---------- *)

\* entry with an input list
DedupCall ==
    /\ dedup.pc = "idle"
    /\ \E input \in DedupInputs :
           dedup' = [DedupIdle EXCEPT !.pc = "loop", !.proxies = input]
    /\ UNCHANGED <<leaseVars, connVars, valVars, batchVars, runVars, codecVars, outVars>>

\* "for proxy in proxies": one record
DedupStep ==
    /\ dedup.pc = "loop"
    /\ dedup.i <= Len(dedup.proxies)
    /\ LET proxy == dedup.proxies[dedup.i]
           proxy_hash == calculate_proxy_hash(proxy)
           dup == is_duplicate(proxy_hash, dedup.seen_hashes)
       IN  dedup' = [dedup EXCEPT
               !.seen_hashes = IF dup THEN @ ELSE @ \cup {proxy_hash},
               !.unique_proxies = IF dup THEN @ ELSE Append(@, proxy),
               !.duplicate_count = IF dup THEN @ + 1 ELSE @,
               !.i = @ + 1]
    /\ UNCHANGED <<leaseVars, connVars, valVars, batchVars, runVars, codecVars, outVars>>

\* "return unique_proxies"
DedupReturn ==
    /\ dedup.pc = "loop"
    /\ dedup.i > Len(dedup.proxies)
    /\ dedup' = [dedup EXCEPT !.pc = "returned"]
    /\ UNCHANGED <<leaseVars, connVars, valVars, batchVars, runVars, codecVars, outVars>>

(* ------------------------- the scheduler ------------------------------ *)

\* test_all_proxies: max_workers, batch_size, the groups by type
SchedCall ==
    /\ script = "test"
    /\ sched.pc = "idle"
    /\ \E proxies \in SchedInputs, w \in 1 .. MaxAttempts, b \in 1 .. MaxBatch :
           sched' = [SchedIdle EXCEPT !.pc = "group",
                                      !.groups = groups_of(proxies),
                                      !.max_workers = w, !.batch_size = b]
    /\ UNCHANGED <<leaseVars, connVars, valVars, dedupVars, runVars, codecVars, outVars>>

\* test_all_proxies: the next group enters test_group_proxies; after the
\* last one the function returns
GroupStart ==
    /\ sched.pc = "group"
    /\ sched' = IF sched.group <= Len(sched.groups)
                THEN [sched EXCEPT !.pc = "batch", !.batch_num = 0]
                ELSE [sched EXCEPT !.pc = "done"]
    /\ UNCHANGED <<leaseVars, connVars, valVars, dedupVars, runVars, codecVars, outVars>>

\* test_group_proxies: the next batch is submitted to a new executor
BatchStart ==
    /\ sched.pc = "batch"
    /\ LET total == sched.groups[sched.group].total
       IN  /\ sched.batch_num < num_batches(total, sched.batch_size)
           /\ sched' = [sched EXCEPT
                   !.pc = "pool",
                   !.size = batch_len(total, sched.batch_size, sched.batch_num),
                   !.queue = batch_len(total, sched.batch_size, sched.batch_num),
                   !.completed = 0]
    /\ UNCHANGED <<leaseVars, connVars, valVars, dedupVars, runVars, codecVars, outVars>>

\* a pool thread takes the next task: test_single_proxy begins
WorkerTake(t) ==
    /\ sched.pc = "pool"
    /\ sched.queue > 0
    /\ worker_exists(t, sched.max_workers)
    /\ AcquireStep(t, MaxTasks)
    /\ sched' = [sched EXCEPT !.queue = @ - 1,
                              !.task[t] = <<sched.group, sched.batch_num>>]
    /\ UNCHANGED <<connVars, valVars, dedupVars, runVars, codecVars, outVars>>

\* test_single_proxy returned without a port: the future is done
WorkerNoPort(t) ==
    /\ ReturnNoPortStep(t)
    /\ sched' = [sched EXCEPT !.completed = @ + 1]
    /\ UNCHANGED <<connVars, valVars, dedupVars, runVars, codecVars, outVars>>

\* test_single_proxy returned through its finally: the future is done
WorkerDone(t) ==
    /\ ReleaseStep(t)
    /\ sched' = [sched EXCEPT !.completed = @ + 1]
    /\ UNCHANGED <<connVars, valVars, dedupVars, runVars, codecVars, outVars>>

\* test_batch_proxies returns; test_group_proxies sleeps 1 s before the next
\* batch
BatchEnd ==
    /\ sched.pc = "pool"
    /\ pool_drained(sched.queue, sched.completed, sched.size)
    /\ LET more == sched.batch_num
                       < num_batches(sched.groups[sched.group].total,
                                     sched.batch_size) - 1
       IN  /\ sched' = [sched EXCEPT !.pc = "batch", !.batch_num = @ + 1]
           /\ now' = IF more THEN after_sleep(now, 1) ELSE now
    /\ UNCHANGED <<script, orphans, used_ports, port_release_delay, pc,
                   proxy_port, config_exists, instance, alive,
                   consecutive_success, result, hist, attempts, released_at,
                   connVars, valVars, dedupVars, runVars, codecVars, outVars>>

\* test_group_proxies returns; test_all_proxies sleeps 2 s
GroupEnd ==
    /\ sched.pc = "batch"
    /\ sched.batch_num >= num_batches(sched.groups[sched.group].total,
                                      sched.batch_size)
    /\ sched' = [sched EXCEPT !.pc = "group", !.group = @ + 1]
    /\ now' = after_sleep(now, 2)
    /\ UNCHANGED <<script, orphans, used_ports, port_release_delay, pc,
                   proxy_port, config_exists, instance, alive,
                   consecutive_success, result, hist, attempts, released_at,
                   connVars, valVars, dedupVars, runVars, codecVars, outVars>>

(* ------------------------ a run of main() ----------------------------- *)

\* test.py main up to the call of test_all_proxies, and test_all_proxies up
\* to its loop over the groups; BATCH_SIZE is a positive setting
MainCall ==
    /\ script = "test"
    /\ main.pc = "idle"
    /\ \E file_exists \in BOOLEAN, proxies \in RunInputs,
          clash_path \in ClashPaths, b \in 1 .. MaxBatch :
           main' =
             IF ~file_exists
             THEN [main EXCEPT !.pc = "exited", !.entry = "test",
                               !.exit_code = 1]
             ELSE IF proxies = << >>
             THEN [main EXCEPT !.pc = "exited", !.entry = "test",
                               !.exit_code = 1]
             ELSE IF binary_missing(clash_path)
             THEN [main EXCEPT !.pc = "exited", !.entry = "test",
                               !.proxies = proxies,
                               !.clash_path = clash_path, !.exit_code = 1]
             ELSE [main EXCEPT !.pc = "group", !.entry = "test",
                               !.proxies = proxies,
                               !.clash_path = clash_path,
                               !.batch_size = b,
                               !.groups = run_groups(proxies),
                               !.tested = [i \in 1 .. Len(proxies) |-> 0],
                               !.phases = {"test"}]
    /\ UNCHANGED <<leaseVars, connVars, valVars, dedupVars, batchVars,
                   interrupted, codecVars, outVars>>

\* test_all_proxies: the next group enters test_group_proxies; after the
\* last group the function returns to main
RunGroupStart ==
    /\ main.pc = "group"
    /\ main' = IF main.group <= Len(main.groups)
               THEN [main EXCEPT !.pc = "batch", !.batch_num = 0,
                                 !.grp = GroupLocals]
               ELSE [main EXCEPT !.pc = "report"]
    /\ UNCHANGED <<leaseVars, connVars, valVars, dedupVars, batchVars,
                   interrupted, codecVars, outVars>>

\* test_group_proxies slices the next batch; test_batch_proxies submits a
\* future for each of its records
RunBatchStart ==
    /\ main.pc = "batch"
    /\ LET members == main.groups[main.group].members
           total == Len(members)
           start_idx == main.batch_num * main.batch_size
           end_idx == Min({start_idx + main.batch_size, total})
       IN  /\ main.batch_num < num_batches(total, main.batch_size)
           /\ main' = [main EXCEPT
                  !.pc = "pool",
                  !.pending = {members[k] : k \in start_idx + 1 .. end_idx},
                  !.batch = BatchLocals]
    /\ UNCHANGED <<leaseVars, connVars, valVars, dedupVars, batchVars,
                   interrupted, codecVars, outVars>>

\* as_completed yields the future of one record of the batch
RunFuture ==
    /\ main.pc = "pool"
    /\ \E i \in main.pending, o \in TaskOutcomes :
           main' = [main EXCEPT
               !.pending = @ \ {i},
               !.batch = future_done(@, i, main.proxies[i], o),
               !.tested[i] = @ + 1,
               !.succeeded = IF ~o.raised /\ o.result THEN @ \cup {i} ELSE @,
               !.latency_sum = IF ~o.raised /\ o.result THEN @ + o.latency
                               ELSE @,
               !.seen = @ \cup {IF o.raised THEN "raised" ELSE o.error},
               !.effects = @ \cup effects_of(o)]
    /\ UNCHANGED <<leaseVars, connVars, valVars, dedupVars, batchVars,
                   interrupted, codecVars, outVars>>

\* test_batch_proxies returns once every future was yielded;
\* test_group_proxies merges the batch
RunBatchEnd ==
    /\ main.pc = "pool"
    /\ main.pending = {}
    /\ main' = [main EXCEPT
           !.pc = "batch",
           !.batch_num = @ + 1,
           !.grp = [working_proxies |->
                        @.working_proxies \o main.batch.working_proxies,
                    all_latencies |->
                        dict_update(@.all_latencies, main.batch.latencies),
                    total_tested |->
                        @.total_tested + main.batch.completed]]
    /\ UNCHANGED <<leaseVars, connVars, valVars, dedupVars, batchVars,
                   interrupted, codecVars, outVars>>

\* test_group_proxies returns its working list, its stats and its latencies;
\* test_all_proxies merges them
RunGroupEnd ==
    /\ main.pc = "batch"
    /\ LET g == main.groups[main.group]
           total == Len(g.members)
       IN  /\ main.batch_num >= num_batches(total, main.batch_size)
           /\ main' = [main EXCEPT
                  !.pc = "group",
                  !.group = @ + 1,
                  !.all_working = @ \o main.grp.working_proxies,
                  !.group_stats =
                      dict_store(@, g.name,
                                 [total |-> total,
                                  working |-> Len(main.grp.working_proxies)]),
                  !.all_latencies =
                      dict_update(@, main.grp.all_latencies)]
    /\ UNCHANGED <<leaseVars, connVars, valVars, dedupVars, batchVars,
                   interrupted, codecVars, outVars>>

\* a loop over the groups that ends with the first exception
next_group_none(group, groups) == Len(groups) + 1

\* "for group_name, group_proxies in sorted(groups.items())": the handler of
\* the loop body ends inside the body, so the loop goes on
next_group(group, groups) == group + 1

\* an exception leaves test_group_proxies (a print to a closed stdout, a
\* thread that cannot be started): leaving the pool waits for its futures,
\* the locals of the group are lost, and the handler of test_all_proxies
\* stores the stats of the group
RunGroupRaise ==
    /\ main.pc \in {"batch", "pool"}
    /\ LET g == main.groups[main.group]
       IN  main' = [main EXCEPT
               !.pc = "group",
               !.group = next_group(@, main.groups),
               !.pending = {},
               !.group_stats =
                   dict_store(@, g.name,
                              [total |-> Len(g.members), working |-> 0]),
               !.failed_groups = @ \cup {g.name}]
    /\ UNCHANGED <<leaseVars, connVars, valVars, dedupVars, batchVars,
                   interrupted, codecVars, outVars>>

\* main prints the table; save_working_configs writes the metadata when
\* there are working proxies; main returns
MainReport ==
    /\ main.pc = "report"
    /\ main' = IF main.all_working # << >>
               THEN [main EXCEPT !.pc = "exited", !.exit_code = 0,
                                 !.saved = TRUE,
                                 !.metadata =
                                     latency_metadata(main.all_latencies)]
               ELSE [main EXCEPT !.pc = "exited", !.exit_code = 0]
    /\ UNCHANGED <<leaseVars, connVars, valVars, dedupVars, batchVars,
                   interrupted, codecVars, outVars>>

\* config_loader.py: ClashConfigRunner.run up to validate_environment; main
\* exits with 1 when run returns False
LoaderCall ==
    /\ main.pc = "idle"
    /\ \E sub_file_exists \in BOOLEAN, clash_path \in ClashPaths :
           main' =
             IF ~sub_file_exists
             THEN [main EXCEPT !.pc = "exited", !.entry = "loader",
                               !.exit_code = 1]
             ELSE IF binary_missing(clash_path)
             THEN [main EXCEPT !.pc = "exited", !.entry = "loader",
                               !.clash_path = clash_path, !.exit_code = 1]
             ELSE [main EXCEPT !.pc = "download", !.entry = "loader",
                               !.clash_path = clash_path]
    /\ UNCHANGED <<leaseVars, connVars, valVars, dedupVars, batchVars,
                   interrupted, codecVars, outVars>>

\* ClashConfigRunner.run, phase 1: download_phase returns the parsed proxies
\* or None; "if not proxies: return False"
LoaderDownload ==
    /\ main.pc = "download"
    /\ \E proxies \in RunInputs, raised \in BOOLEAN :
           main' =
             IF raised \/ proxies = << >>
             THEN [main EXCEPT !.pc = "exited", !.exit_code = 1,
                               !.phases = @ \cup {"download"}]
             ELSE [main EXCEPT !.pc = "test", !.proxies = proxies,
                               !.phases = @ \cup {"download"}]
    /\ UNCHANGED <<leaseVars, connVars, valVars, dedupVars, batchVars,
                   interrupted, codecVars, outVars>>

\* ClashConfigRunner.run, phases 2 and 3: test_phase returns the working
\* proxies, a sublist of the tested ones; "if not working_proxies: ... return
\* False"; an exception or an interrupt returns False; main exits
LoaderTest ==
    /\ main.pc = "test"
    /\ \E W \in SUBSET (1 .. Len(main.proxies)), raised \in BOOLEAN :
           LET working == SelectSeq([i \in 1 .. Len(main.proxies) |-> i],
                                    LAMBDA i : i \in W)
           IN  main' =
                 IF raised
                 THEN [main EXCEPT !.pc = "exited", !.exit_code = 1,
                                   !.phases = @ \cup {"test"}]
                 ELSE IF working = << >>
                 THEN [main EXCEPT !.pc = "exited", !.exit_code = 1,
                                   !.phases = @ \cup {"test"},
                                   !.tested = [i \in 1 .. Len(main.proxies)
                                                  |-> 1]]
                 ELSE [main EXCEPT !.pc = "exited", !.exit_code = 0,
                                   !.phases = @ \cup {"test", "save"},
                                   !.tested = [i \in 1 .. Len(main.proxies)
                                                  |-> 1],
                                   !.succeeded = W,
                                   !.all_working = working,
                                   !.saved = TRUE]
    /\ UNCHANGED <<leaseVars, connVars, valVars, dedupVars, batchVars,
                   interrupted, codecVars, outVars>>

(* ---------------------- a call of parse_proxy_url --------------------- *)

\* the returned record serialized by proxy_to_share_url and the text parsed
\* again
ShareAndParse ==
    /\ parse.pc = "returned"
    /\ parse.proxy # NoRecord
    /\ parse' = [parse EXCEPT
                    !.pc = "reparsed",
                    !.share = proxy_to_share_url(parse.proxy),
                    !.again = parse_proxy_url(proxy_to_share_url(parse.proxy))]
    /\ UNCHANGED <<leaseVars, connVars, valVars, dedupVars, batchVars,
                   runVars, outVars>>

\* entry with a URI
ParseCall ==
    /\ parse.pc = "idle"
    /\ \E url \in ParseInputs :
           parse' = [parse EXCEPT !.pc = "called", !.url = url]
    /\ UNCHANGED <<leaseVars, connVars, valVars, dedupVars, batchVars,
                   runVars, outVars>>

\* the whole body: the record or None
ParseReturn ==
    /\ parse.pc = "called"
    /\ parse' = [parse EXCEPT !.pc = "returned",
                              !.proxy = parse_proxy_url(parse.url)]
    /\ UNCHANGED <<leaseVars, connVars, valVars, dedupVars, batchVars,
                   runVars, outVars>>

\* acquire_port over a longer run of attempts than one batch
Lease(t) == AcquireWithin(t, MaxLeases)

\* the attempts of one batch, within one second of the clock
Next ==
    \/ \E t \in Threads : Acquire(t)
    \/ \E t \in Threads : ReturnNoPort(t)
    \/ \E t \in Threads : Config(t)
    \/ \E t \in Threads : StartCall(t)
    \/ \E t \in Threads : Launch(t)
    \/ \E t \in Threads : StartTimeout(t)
    \/ \E t \in Threads : Probe(t)
    \/ \E t \in Threads : ChildExit(t)
    \/ \E p \in Ports : OrphanExit(p)
    \/ \E t \in Threads : BodyStartFailed(t)
    \/ \E t \in Threads : BodyTest(t)
    \/ \E t \in Threads : StopTerminate(t)
    \/ \E t \in Threads : StopKill(t)
    \/ \E t \in Threads : RemoveConfig(t)
    \/ \E t \in Threads : Release(t)

Spec == Init /\ [][Next]_vars

\* the port manager over time: leases taken and given back by the attempts
\* while the clock runs
NextPorts ==
    \/ Tick
    \/ \E t \in Threads : Lease(t)
    \/ \E t \in Threads : ReturnNoPort(t)
    \/ \E t \in Threads : AttemptBody(t)
    \/ \E t \in Threads : Release(t)

SpecPorts == Init /\ [][NextPorts]_vars

\* one call of test_proxy_connectivity, with every outcome of its requests
NextConn ==
    \/ ConnCall
    \/ ConnLoop
    \/ ConnSleep
    \/ ConnAttempt
    \/ ConnTest
    \/ ConnStageEnd
    \/ ConnAttemptEnd

SpecConn == Init /\ [][NextConn]_vars

\* one call of advanced_proxy_validation, with every outcome of its requests
NextVal ==
    \/ ValCall
    \/ ValRequest
    \/ ValDecide

SpecVal == Init /\ [][NextVal]_vars

\* one call of remove_duplicate_proxies on every input list
NextDedup ==
    \/ DedupCall
    \/ DedupStep
    \/ DedupReturn

SpecDedup == Init /\ [][NextDedup]_vars

\* a run of test_all_proxies: groups, batches, and the attempts of the pool
NextSched ==
    \/ SchedCall
    \/ GroupStart
    \/ BatchStart
    \/ \E t \in Threads : WorkerTake(t)
    \/ \E t \in Threads : WorkerNoPort(t)
    \/ \E t \in Threads : Config(t)
    \/ \E t \in Threads : StartCall(t)
    \/ \E t \in Threads : Launch(t)
    \/ \E t \in Threads : StartTimeout(t)
    \/ \E t \in Threads : Probe(t)
    \/ \E t \in Threads : ChildExit(t)
    \/ \E p \in Ports : OrphanExit(p)
    \/ \E t \in Threads : BodyStartFailed(t)
    \/ \E t \in Threads : BodyTest(t)
    \/ \E t \in Threads : StopTerminate(t)
    \/ \E t \in Threads : StopKill(t)
    \/ \E t \in Threads : RemoveConfig(t)
    \/ \E t \in Threads : WorkerDone(t)
    \/ BatchEnd
    \/ GroupEnd

SpecSched == Init /\ [][NextSched]_vars

\* a run of main of test.py, or of the runner of config_loader.py, with every
\* outcome of every record
NextMain ==
    \/ MainCall
    \/ RunGroupStart
    \/ RunBatchStart
    \/ RunFuture
    \/ RunBatchEnd
    \/ RunGroupEnd
    \/ MainReport
    \/ LoaderCall
    \/ LoaderDownload
    \/ LoaderTest

SpecMain == Init /\ [][NextMain]_vars

\* a run in which test_group_proxies can raise
NextGroups ==
    \/ MainCall
    \/ RunGroupStart
    \/ RunBatchStart
    \/ RunFuture
    \/ RunBatchEnd
    \/ RunGroupEnd
    \/ RunGroupRaise
    \/ MainReport

SpecGroups == Init /\ [][NextGroups]_vars

(* ------------- one attempt with its connectivity test ----------------- *)

\* an attempt is inside the "with" body with a ready instance
InBody(t) == pc[t] = "ready" /\ body_runs_test(TRUE, instance[t].is_ready)

\* test.py, test_single_proxy: the steps of the call of
\* test_proxy_connectivity made from the "with" body
LiveConn ==
    /\ script = "test"
    /\ \E t \in Threads : InBody(t)
    /\ NextConn

\* test.py, test_single_proxy: test_proxy_connectivity has returned; "if not
\* success: error_msg = error" and the return through stop and "finally"
LiveBody(t) ==
    /\ script = "test"
    /\ InBody(t)
    /\ conn.pc = "returned"
    /\ LET r == IF conn.ret.success THEN Success
                ELSE Failure(script, ConnectivityMsg)
       IN  /\ result' = [result EXCEPT ![t] = r]
           /\ hist' = [hist EXCEPT ![t].tested = TRUE, ![t].body = r,
                                   ![t].goodRun = 0]
    /\ consecutive_success' = [consecutive_success EXCEPT ![t] = 0]
    /\ pc' = [pc EXCEPT ![t] = "stop"]
    /\ UNCHANGED <<script, now, orphans, used_ports, port_release_delay,
                   proxy_port, config_exists, instance, alive, attempts,
                   released_at, pipelineVars>>

\* run.py, test_single_proxy: the validation call as one step
LiveRunBody(t) == script = "run" /\ BodyTest(t)

\* the steps of an attempt that the thread takes by itself once it is
\* scheduled and time passes: everything but the outcome of a health probe
LiveAdvance(t) ==
    \/ Config(t)
    \/ StartCall(t)
    \/ Launch(t)
    \/ StartTimeout(t)
    \/ BodyStartFailed(t)
    \/ LiveBody(t)
    \/ LiveRunBody(t)
    \/ StopTerminate(t)
    \/ StopKill(t)
    \/ RemoveConfig(t)
    \/ Release(t)

\* one validation attempt from acquire_port to its return, with the steps of
\* its connectivity test; the worker thread is scheduled fairly and requests
\* return when their timeout runs out
NextLive ==
    \/ \E t \in Threads : AcquireWithin(t, 1)
    \/ \E t \in Threads : Probe(t)
    \/ \E t \in Threads : ChildExit(t)
    \/ \E t \in Threads : LiveAdvance(t)
    \/ LiveConn

SpecLive ==
    /\ Init
    /\ [][NextLive]_vars
    /\ \A t \in Threads : WF_vars(LiveAdvance(t))
    /\ WF_vars(LiveConn)

\* a "with" body that returns error_msg as it was initialised
body_error_unset(success, error) == ""

\* test.py, test_single_proxy: "if not success: error_msg = error"
body_error(success, error) == IF ~success THEN error ELSE ""

\* test.py, test_single_proxy: test_proxy_connectivity has returned; the
\* result with the reason it gave, and the return through stop and "finally"
ResultBody(t) ==
    /\ script = "test"
    /\ InBody(t)
    /\ conn.pc = "returned"
    /\ LET r == [success |-> conn.ret.success,
                 error |-> body_error(conn.ret.success, conn.ret.reason.msg)]
       IN  /\ result' = [result EXCEPT ![t] = r]
           /\ hist' = [hist EXCEPT ![t].tested = TRUE, ![t].body = r,
                                   ![t].goodRun = 0]
    /\ consecutive_success' = [consecutive_success EXCEPT ![t] = 0]
    /\ pc' = [pc EXCEPT ![t] = "stop"]
    /\ conn' = ConnIdle
    /\ connObs' = ConnObsIdle
    /\ UNCHANGED <<script, now, orphans, used_ports, port_release_delay,
                   proxy_port, config_exists, instance, alive, attempts,
                   released_at, valVars, dedupVars, batchVars, runVars,
                   codecVars, outVars>>

\* test.py, test_single_proxy: an exception leaves the "with" body and
\* "except Exception" makes the result
ResultRaise(t) ==
    /\ script = "test"
    /\ InBody(t)
    /\ conn.pc = "idle"
    /\ result' = [result EXCEPT ![t] = Failure(script, ExceptionMsg)]
    /\ hist' = [hist EXCEPT ![t].tested = TRUE,
                            ![t].body = Failure(script, ExceptionMsg),
                            ![t].goodRun = 0]
    /\ consecutive_success' = [consecutive_success EXCEPT ![t] = 0]
    /\ pc' = [pc EXCEPT ![t] = "stop"]
    /\ UNCHANGED <<script, now, orphans, used_ports, port_release_delay,
                   proxy_port, config_exists, instance, alive, attempts,
                   released_at, pipelineVars>>

\* the attempts of one worker of test.py, one after the other, with the
\* result of every exit path of test_single_proxy
Worker == CHOOSE t \in Threads : TRUE
NextResult ==
    \/ script = "test" /\ Acquire(Worker)
    \/ ReturnNoPort(Worker)
    \/ Config(Worker)
    \/ StartCall(Worker)
    \/ Launch(Worker)
    \/ StartTimeout(Worker)
    \/ Probe(Worker)
    \/ ChildExit(Worker)
    \/ BodyStartFailed(Worker)
    \/ LiveConn
    \/ ResultBody(Worker)
    \/ ResultRaise(Worker)
    \/ StopTerminate(Worker)
    \/ StopKill(Worker)
    \/ RemoveConfig(Worker)
    \/ Release(Worker)

SpecResult == Init /\ [][NextResult]_vars

\* the run is interrupted (Ctrl-C): KeyboardInterrupt is raised in the main
\* thread, where ClashConfigRunner.run catches it; nothing is passed to the
\* pool threads, and leaving "with ThreadPoolExecutor" joins them
Interrupt ==
    /\ ~interrupted
    /\ interrupted' = TRUE
    /\ UNCHANGED <<leaseVars, connVars, valVars, dedupVars, batchVars, main,
                   codecVars, outVars>>

\* a connectivity test in a pool thread of a run that may be interrupted at
\* any moment
NextCancel ==
    \/ Interrupt
    \/ NextConn

SpecCancel == Init /\ [][NextCancel]_vars

\* one call of parse_proxy_url on every URI of ParseInputs
NextParse ==
    \/ ParseCall
    \/ ParseReturn

SpecParse == Init /\ [][NextParse]_vars

\* a parse, and a serialization of its record that is parsed again
NextShare ==
    \/ ParseCall
    \/ ParseReturn
    \/ ShareAndParse

SpecShare == Init /\ [][NextShare]_vars

\* the output manager alone: main prints and shuts down, the printer prints
NextOutput ==
    \/ OutputPrint
    \/ PrinterWhile
    \/ PrinterEmpty
    \/ PrinterGet
    \/ PrinterTimeout
    \/ PrinterPrint
    \/ PrinterTaskDone
    \/ ShutdownBegin
    \/ ShutdownJoin
    \/ ShutdownThreadJoin

\* the printer thread is a runnable thread and the timeouts of get and of
\* thread.join expire: a step of the printer or of a wait of shutdown that
\* stays possible is taken. Nothing makes main print or shut down.
SpecOutput ==
    /\ Init
    /\ [][NextOutput]_vars
    /\ WF_vars(PrinterStep)
    /\ WF_vars(ShutdownWait)

(* ------------------------------ properties ----------------------------- *)

\* the attempt of worker t holds a lease
Holding(t) == pc[t] \notin {"idle", "noport"}

\* C1: concurrent acquire_port calls return pairwise distinct ports: two
\* attempts that hold a lease at the same time never hold the same port, and
\* the port of each is in used_ports for as long as it is held.
C1_DistinctLeases ==
    \A t, u \in Threads :
        /\ Holding(t) => proxy_port[t] \in used_ports
        /\ (t # u /\ Holding(t) /\ Holding(u)) => proxy_port[t] # proxy_port[u]

\* two acquire_port calls have returned and neither port was released
C1_Witness ==
    \E t, u \in Threads : t # u /\ pc[t] = "config" /\ pc[u] = "config"

\* C2: a released port is not leased again until the cooldown window (the 2
\* seconds of is_port_available) since its release has elapsed, with either
\* script's PortManager: every leased port that was released before was
\* released at least ReleaseWait seconds ago.
C2_CooldownRespected ==
    \A p \in used_ports :
        p \in DOMAIN released_at => now - released_at[p] >= ReleaseWait

\* C3: the ports configured into distinct live instances (proxy port, socks
\* port proxy_port + 1, control port proxy_port + 1000) are pairwise
\* disjoint, and each is held by a lease of the PortManager.
C3_InstancePortsLeasedAndDisjoint ==
    \A t, u \in Threads :
        /\ alive[t] => InstancePorts(proxy_port[t]) \subseteq used_ports
        /\ (t # u /\ alive[t] /\ alive[u]) =>
               InstancePorts(proxy_port[t]) \cap InstancePorts(proxy_port[u]) = {}

\* C4: every port acquired inside test_single_proxy is released exactly once
\* before it returns, on every exit path: used_ports holds exactly the ports
\* of the attempts that have not returned yet, so it is empty once all have.
C4_ReleasedOnEveryPath ==
    used_ports = {proxy_port[t] : t \in {u \in Threads : Holding(u)}}

\* every attempt of the run has returned and a leased port was given back
C4_Witness ==
    /\ attempts = MaxAttempts
    /\ \A t \in Threads : pc[t] = "idle"
    /\ released_at # << >>

\* C5: when test_single_proxy returns, the config file generated for the
\* attempt no longer exists, on every exit path ("finally" is the last
\* statement before the return and does not touch the file).
C5_ConfigFileGone ==
    \A t \in Threads : pc[t] = "finally" => ~config_exists[t]

\* C6: when test_single_proxy returns, no child process launched for the
\* attempt is still alive, also when terminate and kill do not complete
\* within their wait timeouts.
C6_NoChildLeft == orphans = {}

\* C7: stop never raises and leaves no process handle, whatever happened to
\* terminate and kill; the cleanup of clash_context never replaces the result
\* the body decided.
C7_StopNeverRaises ==
    \A t \in Threads :
        /\ ~hist[t].stopRaised
        /\ pc[t] \in {"stopped", "finally"} => ~instance[t].process
        /\ (pc[t] \in {"stopped", "finally"} /\ hist[t].body # Pending) =>
               result[t] = hist[t].body

\* stop has returned although kill() or wait(1) failed: the child still runs
C7_Witness ==
    \E t \in Threads : pc[t] = "stopped" /\ alive[t] /\ hist[t].body = Success

\* C8: start reports ready only after RequiredChecks consecutive probes that
\* each found the child running, the control endpoint answering 200 and the
\* proxy port open, with either script's ClashInstance.
C8_ReadyAfterConsecutiveProbes ==
    \A t \in Threads : pc[t] = "ready" => hist[t].goodRun >= RequiredChecks

\* C9 (test.py): when the child exits before the instance is healthy, or the
\* start timeout elapses, start returns False with is_ready False: a probe
\* of a dead child never makes the instance ready; test_single_proxy then
\* returns the start failure and runs no connectivity test.
C9_FailedStartInv ==
    \A t \in Threads :
        /\ pc[t] = "failed" => ~instance[t].is_ready
        /\ hist[t].tested => instance[t].is_ready
        /\ (script = "test" /\ hist[t].body # Pending /\ ~hist[t].tested) =>
               result[t].error = StartFailedMsg
C9_FailedStartAct ==
    \A t \in Threads :
        /\ (script = "test" /\ pc[t] = "health" /\ ~alive[t]) => pc'[t] # "ready"
        /\ pc[t] = "failed" =>
               \/ pc'[t] = "failed"
               \/ pc'[t] = "stop" /\ ~hist'[t].tested /\ ~result'[t].success
C9_FailedStart == [](C9_FailedStartInv) /\ [][C9_FailedStartAct]_vars

\* the child exited during the health loop and the attempt reports the start
\* failure
C9_Witness ==
    \E t \in Threads :
        /\ script = "test"
        /\ pc[t] = "stop"
        /\ instance[t].process /\ ~alive[t]
        /\ result[t].error = StartFailedMsg

\* the lifecycle state of the instance of worker t, read off the position of
\* the worker and the fields of the object
InstState(t) ==
    CASE pc[t] = "created" -> "Created"
      [] pc[t] = "starting" -> "Starting"
      [] pc[t] = "health" -> "HealthChecking"
      [] pc[t] = "ready" -> "Ready"
      [] pc[t] = "failed" -> "Failed"
      [] pc[t] \in {"stop", "kill"} -> "Stopping"
      [] OTHER -> IF instance[t].starts = 0 THEN "None" ELSE "Terminated"

Lifecycle ==
    { <<"None", "Created">>, <<"Terminated", "Created">>,
      <<"Created", "Starting">>, <<"Starting", "HealthChecking">>,
      <<"HealthChecking", "Ready">>, <<"Ready", "Stopping">>,
      <<"Stopping", "Terminated">>,
      <<"Starting", "Failed">>, <<"HealthChecking", "Failed">>,
      <<"Failed", "Stopping">> }

\* C10: an instance goes through Created, Starting, HealthChecking, Ready,
\* Stopping, Terminated in that order; Failed is entered only from Starting
\* or HealthChecking and is never followed by Ready (a failed instance is
\* still stopped); start is called at most once per instance; every attempt
\* gets an instance of its own, never one an earlier attempt used.
C10_LifecycleInv ==
    \A t \in Threads :
        /\ instance[t].starts <= 1
        /\ pc[t] = "created" => instance[t] = NewInstance
C10_LifecycleAct ==
    \A t \in Threads :
        \/ InstState(t)' = InstState(t)
        \/ <<InstState(t), InstState(t)'>> \in Lifecycle
C10_Lifecycle == [](C10_LifecycleInv) /\ [][C10_LifecycleAct]_vars

\* an instance that was started once, became ready and was stopped, in the
\* second attempt of the run
C10_Witness ==
    \E t \in Threads :
        /\ pc[t] = "finally"
        /\ attempts = MaxAttempts
        /\ instance[t].is_ready /\ instance[t].starts = 1 /\ ~instance[t].process

(* ------------- properties of the connectivity decision ---------------- *)

\* the stages of which the deciding attempt passed at least one test
StagesPassed == {id[1] : id \in connObs.passed}
TotalWeight == SumWeights(TestIds)

\* C11: test_proxy_connectivity returns success only if each of the stages
\* Basic HTTP, HTTPS Validation and Content Fetch passed at least one test in
\* the attempt that decided.
C11_RequiredStagesPassed ==
    (conn.pc = "returned" /\ conn.ret.success)
        => StagesPassed = 1 .. Len(test_stages)

\* C12: test_proxy_connectivity returns success only if the weights of the
\* passed tests are at least 0.75 of the weights of all tests.
C12_WeightedPassRate ==
    (conn.pc = "returned" /\ conn.ret.success)
        => 100 * SumWeights(connObs.passed) >= OverallPassPercent * TotalWeight

\* C13: when the address seen through the proxy by ip_verification or by
\* cloudflare_trace is the address get_direct_ip returned, the decision of
\* advanced_proxy_validation is failure, whatever the other tests gave.
C13_IpLeakFails ==
    (/\ val.pc = "returned"
     /\ val.direct_ip # NoIP
     /\ val.direct_ip \in {valObs.ipify, valObs.trace})
        => ~val.ret

\* reachability, TLS and content tests passed and ip_verification saw the
\* machine's own address
C13_Witness ==
    /\ val.pc = "returned"
    /\ val.direct_ip = MachineIP /\ valObs.ipify = MachineIP
    /\ {"connectivity_basic", "connectivity_alternate", "https_basic",
        "dns_resolution", "real_content"} \subseteq val.results

\* the probes of the basic-reachability stage
BasicTests == {id \in TestIds : id[1] = 1}

\* C14: a basic-reachability probe answered by status 204 with a non-empty
\* body does not count as passed, and an attempt in which every such probe
\* was answered that way does not end in success.
C14_Body204Fails ==
    /\ \A id \in BasicTests : id \in connObs.body204 => id \notin connObs.passed
    /\ (conn.pc = "returned" /\ BasicTests \subseteq connObs.body204)
           => ~conn.ret.success

\* C15: at most max_retries attempts are started, a wait precedes each retry,
\* no attempt starts with latency samples or stage results of an earlier one,
\* and a successful attempt ends the call with success.
C15_RetryInv ==
    /\ connObs.started <= max_retries
    /\ conn.pc \in {"attempt", "test", "stage_end", "attempt_end"} =>
           connObs.waits = conn.attempt
    /\ ~connObs.carried
    /\ conn.pc = "attempt" =>
           conn.all_latencies = << >> /\ conn.stage_results = << >>
    /\ (conn.pc = "test" /\ conn.stage = 1 /\ conn.test = 1) =>
           conn.attempt_latencies = << >> /\ conn.stage_latencies = << >>
C15_RetryAct ==
    /\ (conn.pc = "attempt_end"
          /\ attempt_ok(conn.attempt_passed_stages, conn.attempt_latencies))
           => conn'.pc = "returned" /\ conn'.ret.success
    /\ conn.pc = "returned" => conn'.pc = "returned"
    /\ conn'.pc = "attempt" => conn.pc = (IF conn.attempt > 0 THEN "sleep" ELSE "loop")
C15_Retry == [](C15_RetryInv) /\ [][C15_RetryAct]_vars

\* a retry that succeeded after a first attempt that passed a stage
C15_Witness ==
    /\ conn.pc = "returned" /\ conn.ret.success
    /\ connObs.started = max_retries /\ connObs.waits = 1
    /\ conn.attempt = 1

\* C16: when the retries are exhausted, the reason returned is the reason of
\* the most recent failing test of the last attempt.
C16_LastFailureReason ==
    (conn.pc = "returned" /\ ~conn.ret.success)
        => conn.ret.reason = connObs.lastFail

(* ------------------- properties of port exhaustion -------------------- *)

\* C17: the attempt that got no port returns at once a failure whose reason
\* differs from the one of a failed start and from the one of a failed
\* connectivity test, with no config file written, no child launched and no
\* lease taken or given back.
C17_PortExhaustionReported ==
    \A t \in Threads :
        pc[t] = "noport" =>
            /\ proxy_port[t] = NoPort
            /\ ~result[t].success
            /\ result[t] \notin {Failure(script, StartFailedMsg),
                                 Failure(script, ConnectivityMsg)}
            /\ ~config_exists[t] /\ ~alive[t]
            /\ used_ports = {proxy_port[u] : u \in {v \in Threads : Holding(v)}}

(* -------------------- properties of deduplication --------------------- *)

\* the (type, server, port) of a record
Triple(proxy) == <<proxy.type, proxy.server, proxy.port>>

\* the positions of the input whose fingerprint no earlier position has
FirstPositions(proxies) ==
    {i \in 1 .. Len(proxies) :
        \A j \in 1 .. (i - 1) :
            calculate_proxy_hash(proxies[j]) # calculate_proxy_hash(proxies[i])}

RECURSIVE Pick(_, _, _)
\* the elements of proxies at the positions I, from position i on, in order
Pick(proxies, I, i) ==
    IF i > Len(proxies) THEN << >>
    ELSE (IF i \in I THEN <<proxies[i]>> ELSE << >>) \o Pick(proxies, I, i + 1)

\* C18: the list returned by remove_duplicate_proxies holds, in input order,
\* exactly the first record of each fingerprint; no two of its records have
\* the same (type, server, port), whatever their names; the others are
\* counted as duplicates.
C18_FirstOfEachFingerprint ==
    dedup.pc = "returned" =>
        LET out == dedup.unique_proxies
        IN  /\ out = Pick(dedup.proxies, FirstPositions(dedup.proxies), 1)
            /\ \A i, j \in 1 .. Len(out) :
                   i # j => /\ Triple(out[i]) # Triple(out[j])
                            /\ calculate_proxy_hash(out[i])
                                   # calculate_proxy_hash(out[j])
            /\ dedup.duplicate_count = Len(dedup.proxies) - Len(out)

\* an input where the second record differs from the first only in its name
\* and the third is another endpoint: two records returned
C18_Witness ==
    /\ dedup.pc = "returned"
    /\ Len(dedup.proxies) = 3
    /\ Triple(dedup.proxies[1]) = Triple(dedup.proxies[2])
    /\ dedup.proxies[1].name # dedup.proxies[2].name
    /\ dedup.unique_proxies = <<dedup.proxies[1], dedup.proxies[3]>>

(* ---------------------- properties of scheduling ---------------------- *)

\* the pool threads that are inside test_single_proxy
InFlight == {t \in Threads : pc[t] # "idle"}

FailedCount(b) == dict_sum(b.error_stats)

\* C21: a record that fails, in whichever way, is counted like any other and
\* stops nothing.  While a batch is in the pool, completed is the number of
\* futures that were yielded and the working and failed counts add up to it,
\* so that after the batch completed equals the batch length; no record is
\* tested twice, and once test_all_proxies has returned every record it was
\* given has been tested exactly once.
C21_EveryRecordOneOutcome ==
    main.entry = "test" =>
        /\ \A i \in DOMAIN main.tested : main.tested[i] <= 1
        /\ main.pc = "pool" =>
               LET size == batch_len(Len(main.groups[main.group].members),
                                     main.batch_size, main.batch_num)
               IN  /\ main.batch.completed
                          = size - Cardinality(main.pending)
                   /\ Len(main.batch.working_proxies)
                          + FailedCount(main.batch) = main.batch.completed
        /\ (main.pc \in {"report", "exited"} /\ "test" \in main.phases) =>
               \A i \in DOMAIN main.tested : main.tested[i] = 1

\* a run of three records has ended in which one task raised, one found no
\* port and one record worked
C21_Witness ==
    /\ main.entry = "test"
    /\ main.pc = "exited"
    /\ {"raised", NoPortsMsg} \subseteq main.seen
    /\ main.succeeded # {}
    /\ Len(main.proxies) = MaxTasks

AllFailed ==
    /\ main.pc = "exited"
    /\ "test" \in main.phases
    /\ main.proxies # << >>
    /\ \A i \in DOMAIN main.tested : main.tested[i] = 1
    /\ main.succeeded = {}

\* C23: a run in which every record fails validation ends normally, with an
\* empty result set and exit code 0; exit code 1 is kept for the fatal
\* conditions of the environment.
C23_EmptyResultIsNormal ==
    AllFailed => main.exit_code = 0 /\ main.all_working = << >>

\* the records of one protocol, and those of them that worked
RecordsOf(ptype) == {i \in DOMAIN main.proxies : main.proxies[i].type = ptype}
WorkingOf(ptype) == RecordsOf(ptype) \cap main.succeeded

\* C24: in the report of a finished run, every protocol has total = the
\* number of its records and working = the number of its successful
\* outcomes, at most total; and the latency figures are taken over one
\* sample for each successful outcome and over nothing else: as many samples
\* as successes, adding up to the sum of their latencies.
C24_ReportMatchesOutcomes ==
    (main.entry = "test" /\ main.pc = "exited" /\ "test" \in main.phases) =>
        /\ DOMAIN main.group_stats
               = {main.proxies[i].type : i \in DOMAIN main.proxies}
        /\ \A g \in DOMAIN main.group_stats :
               /\ main.group_stats[g].total = Cardinality(RecordsOf(g))
               /\ main.group_stats[g].working = Cardinality(WorkingOf(g))
               /\ main.group_stats[g].working <= main.group_stats[g].total
        /\ main.saved =>
               /\ main.metadata.len = Cardinality(main.succeeded)
               /\ main.metadata.sum = main.latency_sum

(* ------------------------- the happy path ------------------------------ *)

\* every required stage passed a test: a no-content probe, the HTTPS probe
\* and the real-content request
RequiredStagesPassed ==
    /\ val.results \cap {"connectivity_basic", "connectivity_alternate"} # {}
    /\ "https_basic" \in val.results
    /\ "real_content" \in val.results

\* the address seen through the proxy differs from the direct one:
\* ip_verification passed, and cloudflare_trace did not report the direct
\* address
EgressDiffers ==
    /\ "ip_verification" \in val.results
    /\ (val.direct_ip # NoIP => valObs.trace # val.direct_ip)

\* C25: when the basic-reachability, TLS and content stages have all
\* succeeded and the address seen through the proxy differs from the direct
\* one, advanced_proxy_validation returns success, with a latency sample
\* behind its average.
C25_StagesPassedMeansSuccess ==
    (val.pc = "returned" /\ RequiredStagesPassed /\ EgressDiffers)
        => val.ret /\ val.latencies # << >>

(* ---------------------------- termination ------------------------------ *)

C27_NoRetryAfterCancel ==
    [][(interrupted /\ conn.pc # "idle" /\ connObs.started >= 1)
           => connObs.started' = connObs.started]_vars


\* the action of parse_proxy_url returned something other than None
Returned == parse.pc = "returned" /\ parse.proxy # NoRecord

\* C28: parse_proxy_url returns no record, or a record that passes every
\* check of validate_proxy_config: a known type, a non-empty name, a
\* syntactically valid server, a port in 1..65535 and the credentials of its
\* type; it never returns a record that fails one of them.
C28_ReturnedRecordIsValid ==
    Returned =>
        /\ validate_proxy_config(parse.proxy)
        /\ parse.proxy.type \in {"vmess", "vless", "ss", "ssr", "trojan"}
        /\ parse.proxy.name # << >>
        /\ parse.proxy.server # << >>
        /\ is_valid_domain(parse.proxy.server)
        /\ parse.proxy.port >= 1 /\ parse.proxy.port <= 65535
        /\ parse.proxy.type \in {"vmess", "vless"} => parse.proxy.uuid # << >>
        /\ parse.proxy.type \in {"ss", "ssr"} =>
               parse.proxy.cipher # "" /\ parse.proxy.password # ""
        /\ parse.proxy.type = "trojan" => parse.proxy.password # ""

\* a Trojan URI came back as a record, and its port is the URI's
C28_Witness ==
    /\ Returned
    /\ parse.url.scheme = "trojan"
    /\ parse.proxy.type = "trojan"
    /\ parse.proxy.port = 443
    /\ parse.proxy.password = "pw"

\* C29: every Shadowsocks or ShadowsocksR record that parse_proxy_url
\* returns has a cipher of the allow-list of known ciphers; a URI of either
\* kind with another cipher is rejected.
C29_CipherFromAllowList ==
    (Returned /\ parse.proxy.type \in {"ss", "ssr"}) =>
        parse.proxy.cipher \in valid_ciphers

\* a canonical UUID: five groups of 8, 4, 4, 4 and 12 hexadecimal digits
\* joined by dashes
HexDigits == HexLower \cup Range(SubSeq(UpperAlpha, 1, 6))
IsCanonicalUuid(text) ==
    LET groups == split(text, "-")
    IN  /\ Len(groups) = 5
        /\ <<Len(groups[1]), Len(groups[2]), Len(groups[3]), Len(groups[4]),
             Len(groups[5])>> = <<8, 4, 4, 4, 12>>
        /\ \A k \in 1 .. 5 : Range(groups[k]) \subseteq HexDigits

\* the id that a VMess or VLESS URI carries, blanks around it removed
IdOf(url) ==
    IF url.scheme = "vmess" /\ "id" \notin url.keys THEN << >>
    ELSE strip(url.id)

\* C30: parse_proxy_url returns no record for a VMess or VLESS URI whose id
\* is not a canonical 8-4-4-4-12 hexadecimal UUID.
C30_BadIdRejected ==
    (/\ parse.pc = "returned"
     /\ parse.url.scheme \in {"vmess", "vless"}
     /\ ~IsCanonicalUuid(IdOf(parse.url))) => parse.proxy = NoRecord

\* a VLESS URI with a good server and port and an id without dashes was
\* rejected
C30_Witness ==
    /\ parse.pc = "returned"
    /\ parse.url.scheme = "vless"
    /\ parse.url.shape = "full"
    /\ parse.url.id = UuidNoDash
    /\ is_valid_domain(parse.url.server)
    /\ parse.url.port = <<"4", "4", "3">>
    /\ parse.proxy = NoRecord

\* the fields of a record that a round trip has to keep: kind, server,
\* port, credentials, transport options and TLS options
CanonicalFields(proxy) ==
    <<proxy.type, proxy.server, proxy.port, proxy.uuid, proxy.cipher,
      proxy.password, proxy.transport>>

\* C31: for every record r that parse_proxy_url returns,
\* parse_proxy_url(proxy_to_share_url(r)) is a record equal to r in kind,
\* server, port, credentials, transport options and TLS options.
C31_RoundTripKeepsRecord ==
    parse.pc = "reparsed" =>
        /\ parse.again # NoRecord
        /\ CanonicalFields(parse.again) = CanonicalFields(parse.proxy)

\* C32: pruning of the cooldown map in test.py's release_port never makes a
\* port leasable early: while less than ReleaseWait seconds have passed
\* since the last release of a port, the map still holds the port with the
\* time of that release, whatever releases of other ports came in between.
C32_PruneKeepsCooldown ==
    script = "test" =>
        \A p \in DOMAIN released_at :
            now - released_at[p] < ReleaseWait =>
                /\ p \in DOMAIN port_release_delay
                /\ port_release_delay[p] = released_at[p]
                /\ ~is_port_available_test(p, port_release_delay, now, {})

\* a release has pruned the entry of a port that was released PruneAge
\* seconds ago or earlier, while the entry of the port just released is kept
C32_Witness ==
    /\ script = "test"
    /\ \E p \in DOMAIN released_at :
           /\ p \notin DOMAIN port_release_delay
           /\ now - released_at[p] >= PruneAge
    /\ \E q \in DOMAIN port_release_delay : now - port_release_delay[q] = 0

\* the five tests that validation_tests marks critical
CriticalTests ==
    {"connectivity_basic", "connectivity_alternate", "https_basic",
     "ip_verification", "cloudflare_trace"}

\* C33: advanced_proxy_validation returns is_valid true exactly when all
\* five critical tests passed: one failed critical test puts the critical
\* rate under 0.95, the critical tests alone give an overall rate of 0.75 or
\* more, and the two other tests never change the decision.
C33_ValidIffCriticalPassed ==
    val.pc = "returned" =>
        /\ val.ret <=> CriticalTests \subseteq val.results
        /\ CriticalTests \subseteq val.results =>
               /\ val.achieved_critical_weight = critical_weight
               /\ 100 * val.achieved_critical_weight >=
                      OverallPassPercent * total_weight
        /\ ~(CriticalTests \subseteq val.results) =>
               100 * val.achieved_critical_weight <
                   CriticalPassPercent * critical_weight

\* the call returned True with both non-critical tests failed
C33_Witness ==
    /\ val.pc = "returned"
    /\ val.ret
    /\ val.results = CriticalTests

\* C34: an attempt of test_proxy_connectivity succeeds exactly when at
\* least two of the three stages passed a test and at least three tests
\* passed in all; the weights of the tests play no other part. After an
\* attempt has ended, the call has returned success if and only if the tests
\* passed in that attempt meet the two counts.
C34_AttemptDecision ==
    (conn.pc \in {"loop", "sleep", "returned"} /\ connObs.started >= 1) =>
        ((conn.pc = "returned" /\ conn.ret.success)
            <=> (/\ Cardinality(StagesPassed) >= 2
                 /\ Cardinality(connObs.passed) >= 3))

\* the last attempt failed with two stages passed by one test each, of
\* weight 4 and 5
C34_Witness ==
    /\ conn.pc = "returned"
    /\ ~conn.ret.success
    /\ Cardinality(StagesPassed) = 2
    /\ Cardinality(connObs.passed) = 2
    /\ SumWeights(connObs.passed) = 9

\* the samples of the tests passed in the attempt that ended last, added up
RECURSIVE PassedSamples(_)
PassedSamples(S) ==
    IF S = {} THEN 0
    ELSE LET id == CHOOSE x \in S : TRUE
         IN  100 * connObs.started + 10 * id[1] + id[2]
                 + PassedSamples(S \ {id})

\* C36: the latency that test_proxy_connectivity returns is 0 with a
\* failure, and with a success it is the mean of the samples of the tests
\* passed in the succeeding attempt only.
C36_LatencyOfDecidingAttempt ==
    conn.pc = "returned" =>
        IF conn.ret.success
        THEN conn.ret.latency[1] * Cardinality(connObs.passed)
                 = PassedSamples(connObs.passed) * conn.ret.latency[2]
        ELSE conn.ret.latency[1] = 0

\* a retry succeeded after a first attempt in which tests had passed
C36_Witness ==
    /\ conn.pc = "returned" /\ conn.ret.success
    /\ conn.attempt = 1
    /\ conn.ret.latency[2] = 3
    /\ connObs.waits = 1

\* C35: on every exit path of test.py's test_single_proxy the error
\* message is empty if and only if success is true; every failure carries a
\* reason.
C35_ErrorIffFailure ==
    \A t \in Threads :
        (script = "test" /\ result[t] # Pending) =>
            (result[t].error = "" <=> result[t].success)

\* the second attempt of a worker is returning the reason of a failed
\* connectivity test
C35_Witness ==
    /\ script = "test"
    /\ attempts = 2
    /\ pc[Worker] = "finally"
    /\ ~result[Worker].success
    /\ result[Worker].error = "Bad status"

\* C37: the cleanup of an attempt is ordered: the child is stopped before
\* the config file is deleted, the port is released only after both, and a
\* port is never free in the manager while the process bound to it has not
\* been stopped.
C37_CleanupOrdered ==
    /\ \A t \in Threads : pc[t] \in {"stopped", "finally"} => ~alive[t]
    /\ \A p \in Ports :
           (p \in orphans \/ \E t \in Threads : alive[t] /\ proxy_port[t] = p)
               => p \in used_ports

\* the working counts of the reported groups, added up
RECURSIVE WorkingSum(_, _)
WorkingSum(stats, S) ==
    IF S = {} THEN 0
    ELSE LET k == CHOOSE x \in S : TRUE
         IN  stats[k].working + WorkingSum(stats, S \ {k})

\* C38: an exception raised while one protocol group is tested does not
\* abort the run: every group is reported with its full total, the groups
\* that did not raise had every record tested, the group that raised is
\* reported with working = 0, and the working counts add up to the length of
\* the returned working list.
C38_GroupErrorContained ==
    main.pc = "report" =>
        /\ DOMAIN main.group_stats = {ptype \in ProxyTypes : RecordsOf(ptype) # {}}
        /\ \A ptype \in DOMAIN main.group_stats :
               /\ main.group_stats[ptype].total = Cardinality(RecordsOf(ptype))
               /\ ptype \in main.failed_groups =>
                      main.group_stats[ptype].working = 0
               /\ ptype \notin main.failed_groups =>
                      \A i \in RecordsOf(ptype) : main.tested[i] = 1
        /\ WorkingSum(main.group_stats, DOMAIN main.group_stats)
               = Len(main.all_working)

\* the first group raised after one of its records had passed, and the
\* second group was tested and has a working record
C38_Witness ==
    /\ main.pc = "report"
    /\ main.failed_groups = {"ss"}
    /\ \E i \in RecordsOf("ss") : i \in main.succeeded
    /\ "vmess" \in DOMAIN main.group_stats
    /\ main.group_stats["vmess"].working = 1
    /\ Len(main.all_working) = 1

\* the printed messages are the first of the passed messages, in their order
PrintedInOrder ==
    /\ Len(output.printed) <= Len(output.passed)
    /\ output.printed = SubSeq(output.passed, 1, Len(output.printed))

====
